---- MODULE Spec2Model ----
(***************************************************************************)
(* Model of the seekfile Indexer (package indexer): the in-memory index,   *)
(* the write-through to the RecordStore, the scan controller (StartScan,   *)
(* StopScan, runScan, walkRoot, removeMissing) and the scan status.        *)
(***************************************************************************)
EXTENDS Integers, Sequences, FiniteSets, TLC

(* ------------------------------ bounds -------------------------------- *)
\* number of scans StartScan may accept in one behaviour of Spec, where the
\* filesystem changes and single records are updated under the scan
MaxScans == 1
\* number of scans StartScan may accept in one behaviour of SpecScans, where
\* scans follow and overlap one another over a filesystem that stays as it is
MaxRescans == 2
\* number of store calls that fail with an I/O error in one behaviour
MaxFaults == 2
\* number of disturbances in one behaviour: changes of the filesystem and
\* UpdateFile / RemoveFile calls
MaxEvents == 1

\* width in bits of the int of Search's offset and limit (64 in the build)
IntBits == 4
\* number of records in the index a Search pages through
MaxMatches == 3
\* length of the name patterns and of the names they are matched against
MaxPattern == 3
MaxName == 2
\* length of the paths UpdateFile is given, and number of its calls
MaxPath == 4
MaxCalls == 2
\* number of LoadFromStore calls in one behaviour of SpecLoad
MaxLoads == 2

(* --------------------------- the environment --------------------------- *)
\* Indexer.scanRoots: the configured roots, in list order
scanRoots == <<"/A", "/B">>
Roots == {scanRoots[i] : i \in 1..Len(scanRoots)}
\* a root of an earlier configuration: its records are still in the store
StaleRoot == "/Z"
\* the regular files that may exist, in filepath.WalkDir's lexical order
DirOrder == <<"/A/a1", "/A/a2", "/B/b1", "/B/b2">>
DiskPaths == {DirOrder[i] : i \in 1..Len(DirOrder)}
StalePath == "/Z/z1"
AllPaths == DiskPaths \cup {StalePath}
RootOf(p) ==
    IF p \in {"/A/a1", "/A/a2"} THEN "/A" ELSE IF p \in {"/B/b1", "/B/b2"} THEN "/B" ELSE StaleRoot

\* what "no file", "no record", "no call" look like
NoFile == <<>>
NoRecord == [Path |-> "", Size |-> 0, ModTime |-> 0, RootPath |-> ""]
NoStart == [id |-> 0, mode |-> ""]
NoUpdate == [op |-> "", path |-> "", rec |-> NoRecord]
NoVisit == [path |-> "", writes |-> 0, upserts |-> 0]
EmptyIndex == [p \in {"/A/a1", "/A/a2", "/B/b1", "/B/b2", "/Z/z1"} |-> NoRecord]
\* the (size, modTime) of a file that is created, and of the file a caller of
\* UpdateFile reports
NewMeta == <<10, 1>>
WatchMeta == <<20, 2>>
\* a file is rewritten in place: same size, later modTime
Touched(m) == IF m = NoFile THEN NewMeta ELSE <<m[1], m[2] + 1>>
ScanModeIncremental == "incremental"
ScanModeFull == "full"
Modes == {ScanModeIncremental, ScanModeFull}

\* FileRecord / storage.Record (Name is the last element of Path)
FileRecord(p, m, r) == [Path |-> p, Size |-> m[1], ModTime |-> m[2], RootPath |-> r]

\* errors, as the chain of messages errors.Is walks
NoErr == <<>>
ErrCanceled == <<"context canceled">>
IoCause == "io error"
CancelCause == "context canceled"
StoreErr(op, subject, cause) == <<op, subject, cause>>
\* errors.Is(err, context.Canceled)
IsCanceled(e) == e # NoErr /\ e[Len(e)] = CancelCause
ErrScanInProgress == "scan already in progress"

\* the calls whose locking is followed step by step
Calls == {"startScan", "status", "search", "loadFromStore", "updateFile", "removeFile",
          "scan"}
\* StopScan, and the calls that only read under the index lock, like Search
OtherCalls == {"stopScan", "lookup", "roots"}
ScanIds == 1..(IF MaxScans > MaxRescans THEN MaxScans ELSE MaxRescans)
ZeroState == [LastFullScan |-> 0, LastIncrementalScan |-> 0]
ZeroStatus == [Mode |-> "", Running |-> FALSE, CurrentPath |-> "", Processed |-> 0,
               KnownFiles |-> 0, StartedAt |-> 0, FinishedAt |-> 0,
               LastSuccessfulRun |-> 0, Error |-> NoErr]

VARIABLES
    disk,       \* the filesystem: path -> (size, modTime) or NoFile
    missing,    \* the roots whose directory does not exist
    files,      \* Indexer.files: path -> FileRecord or NoRecord
    store,      \* RecordStore file_records: path -> Record or NoRecord
    scanState,  \* RecordStore scan_state: root -> ScanState
    status,     \* Indexer.status
    scanCancel, \* Indexer.scanCancel: the id of the scan whose cancel func it is, 0 for nil
    ctxDone,    \* the scans whose context is cancelled
    starting,   \* the StartScan call between its status update and its handle update
    task,       \* the runScan goroutines: id -> locals
    upd,        \* the UpdateFile / RemoveFile call between its index write and its store write
    ret,        \* what the last StartScan call returned
    hydrated,   \* LoadFromStore has succeeded
    quiet,      \* no filesystem change (fs) and no other index writer (idx) since the scan was accepted
    nscans, nev, nfault, \* how many scans, disturbances and store failures so far
    mu,         \* Indexer.mu (sync.RWMutex): its writer, its readers, the writers waiting
    statusMu,   \* Indexer.statusMu (sync.RWMutex), likewise
    scanMu,     \* Indexer.scanMu (sync.Mutex), likewise without readers
    at,         \* the calls that take the locks one by one: call -> position in its code
    reply,      \* the locals of those calls, and what Status returned
    arg,        \* the arguments of a call of a pure function (Search, its helpers)
    res         \* what that call returned

\* the Indexer and its store as the scan controller sees them
indexer == <<disk, missing, files, store, scanState, status, scanCancel, ctxDone, starting,
             task, upd, ret, hydrated, quiet, nscans, nev, nfault>>
\* the locks with the calls that take them, and the calls of pure functions
aside == <<mu, statusMu, scanMu, at, reply, arg, res>>

vars == <<disk, missing, files, store, scanState, status, scanCancel, ctxDone, starting,
          task, upd, ret, hydrated, quiet, nscans, nev, nfault,
          mu, statusMu, scanMu, at, reply, arg, res>>

\* the locals of a runScan goroutine that has not started or has returned
IdleTask == [pc |-> "idle", mode |-> "", firstErr |-> NoErr, processed |-> 0, seen |-> {},
             scannedRoots |-> {}, rootStates |-> [r \in Roots |-> ZeroState], ri |-> 0,
             pending |-> <<>>, cur |-> NoRecord, del |-> "", candidates |-> {},
             \* history of the pass, read by the properties only
             first |-> NoErr, nerr |-> 0, walked |-> {}, failed |-> {},
             before |-> EmptyIndex, visit |-> NoVisit, removed |-> {},
             cancelEarly |-> FALSE, skipped |-> {}]

InitDisk == [p \in AllPaths |->
              IF p = "/A/a2" THEN <<20, 1>> ELSE IF p = "/B/b2" THEN NoFile ELSE <<10, 1>>]
\* what the store may hold from an earlier process: a file that has changed
\* since (a1), one that has not (a2), one that is new (b1), one that is gone
\* (b2) and one under a root that is no longer configured (z1)
CachedStore == [p \in AllPaths |->
                  CASE p = "/A/a1" -> FileRecord(p, <<20, 1>>, "/A")
                    [] p = "/A/a2" -> FileRecord(p, <<20, 1>>, "/A")
                    [] p = "/B/b1" -> NoRecord
                    [] p = "/B/b2" -> FileRecord(p, <<10, 1>>, "/B")
                    [] OTHER -> FileRecord(p, <<10, 1>>, StaleRoot)]
EmptyStore == EmptyIndex
InitStores == {EmptyStore, CachedStore}

InitIndexer ==
    /\ disk = InitDisk
    /\ missing = {}
    /\ files = EmptyIndex
    /\ store \in InitStores
    /\ scanState = [r \in Roots |-> ZeroState]
    /\ status = ZeroStatus
    /\ scanCancel = 0
    /\ ctxDone = {}
    /\ starting = NoStart
    /\ task = [id \in ScanIds |-> IdleTask]
    /\ upd = NoUpdate
    /\ ret = "none"
    /\ hydrated = FALSE
    /\ quiet = [fs |-> TRUE, idx |-> TRUE]
    /\ nscans = 0 /\ nev = 0 /\ nfault = 0

\* both locks free, no call under way
Unlocked == [w |-> "", r |-> {}, q |-> {}]
NoReply == [count |-> 0, snap |-> ZeroStatus, known |-> 0]
InitLocks ==
    /\ mu = Unlocked
    /\ statusMu = Unlocked
    /\ scanMu = Unlocked
    /\ at = [c \in Calls \cup OtherCalls |-> 1]
    /\ reply = NoReply
NoCall == [fn |-> ""]
InitCalls == arg = NoCall /\ res = NoCall

Init == InitIndexer /\ InitLocks /\ InitCalls

(* ------------------------------ helpers -------------------------------- *)
\* countFiles
countFiles == Cardinality({p \in AllPaths : files[p] # NoRecord})
\* a context is cancelled for good; only live goroutines are tracked
Live(id) == task[id].pc \notin {"idle", "defer"}
Cancelled(set, id) == IF id # 0 /\ Live(id) THEN set \cup {id} ELSE set
\* the loop of runScan over the roots has not ended
InLoop(id) == task[id].pc \in {"begin", "rootCheck", "walkEnter", "walk", "walkStore"}
\* history: the cancel func of scan id is called while its loop is still running
Noted(id) ==
    IF id # 0 /\ Live(id) /\ id \notin ctxDone
      THEN [task EXCEPT ![id].cancelEarly = InLoop(id)]
      ELSE task
\* the directory listing of a root, as WalkDir reads it
Entries(root) == SelectSeq(DirOrder, LAMBDA p : RootOf(p) = root /\ disk[p] # NoFile)
\* the outcomes of a store call under a context: the causes of failure, "" for success
StoreOutcomes(done) ==
    IF done THEN {CancelCause} ELSE IF nfault < MaxFaults THEN {"", IoCause} ELSE {""}
\* the store failures so far, after a call with this outcome
Charged(cause) == IF cause = IoCause THEN nfault + 1 ELSE nfault
\* time.Now() at the k-th reading of the clock by scan id (StartScan reads it
\* first, then runScan once per walked root and once at the end)
Now(id, k) == (id - 1) * (Len(scanRoots) + 2) + k + 1

(* ------------------------ StartScan / StopScan ------------------------- *)
\* a guard that lets every call through
ScanRejectedNever == FALSE
\* StartScan's single-flight guard
ScanRejected == status.Running
\* a StartScan that stamps the status before it tests Running
RejectedStatusStamped == [status EXCEPT !.StartedAt = @ + 1]
\* the status a rejected StartScan leaves behind
RejectedStatus == status
\* the status an accepted StartScan installs (a fresh struct: the fields it
\* does not name are zero)
AcceptedStatus(id, mode) ==
    [Mode |-> mode, Running |-> TRUE, CurrentPath |-> "", Processed |-> 0,
     KnownFiles |-> countFiles, StartedAt |-> Now(id, 0), FinishedAt |-> 0,
     LastSuccessfulRun |-> 0, Error |-> NoErr]

\* StartScan while a scan is running: returns ErrScanInProgress
StartScanReject ==
    /\ ScanRejected
    /\ status' = RejectedStatus
    /\ ret' = ErrScanInProgress
    /\ UNCHANGED <<disk, missing, files, store, scanState, scanCancel, ctxDone, starting,
                   task, upd, hydrated, quiet, nscans, nev, nfault>>
    /\ UNCHANGED aside

\* StartScan, first critical section (statusMu): the scan is accepted
StartScanAccept(mode, limit) ==
    /\ ~ScanRejected
    /\ starting = NoStart
    /\ nscans < limit
    /\ status' = AcceptedStatus(nscans + 1, mode)
    /\ starting' = [id |-> nscans + 1, mode |-> mode]
    /\ nscans' = nscans + 1
    /\ quiet' = [fs |-> TRUE, idx |-> TRUE]
    /\ UNCHANGED <<disk, missing, files, store, scanState, scanCancel, ctxDone, task, upd,
                   ret, hydrated, nev, nfault>>
    /\ UNCHANGED aside

\* StartScan, second critical section (scanMu), go runScan, return nil
StartScanLaunch ==
    /\ starting # NoStart
    /\ ctxDone' = Cancelled(ctxDone, scanCancel)
    /\ scanCancel' = starting.id
    /\ task' = [Noted(scanCancel) EXCEPT ![starting.id] =
                  [IdleTask EXCEPT !.pc = "begin", !.mode = starting.mode, !.before = files]]
    /\ starting' = NoStart
    /\ ret' = "nil"
    /\ UNCHANGED <<disk, missing, files, store, scanState, status, upd, hydrated,
                   quiet, nscans, nev, nfault>>
    /\ UNCHANGED aside

\* StopScan
StopScan ==
    /\ ctxDone' = Cancelled(ctxDone, scanCancel)
    /\ task' = Noted(scanCancel)
    /\ scanCancel' = 0
    /\ UNCHANGED <<disk, missing, files, store, scanState, status, starting, upd,
                   ret, hydrated, quiet, nscans, nev, nfault>>
    /\ UNCHANGED aside

(* --------------- UpdateFile / RemoveFile / LoadFromStore --------------- *)
\* another writer touched the index while a scan was in flight
Disturbed == [quiet EXCEPT !.idx = IF status.Running THEN FALSE ELSE @]

\* saveRecord, index half (under mu), called by UpdateFile
UpdateFileIndex(p) ==
    /\ upd = NoUpdate
    /\ nev < MaxEvents
    /\ files' = [files EXCEPT ![p] = FileRecord(p, WatchMeta, RootOf(p))]
    /\ upd' = [op |-> "save", path |-> p, rec |-> FileRecord(p, WatchMeta, RootOf(p))]
    /\ nev' = nev + 1
    /\ quiet' = Disturbed
    /\ UNCHANGED <<disk, missing, store, scanState, status, scanCancel, ctxDone, starting,
                   task, ret, hydrated, nscans, nfault>>
    /\ UNCHANGED aside

\* deleteRecord, index half (under mu), called by RemoveFile
RemoveFileIndex(p) ==
    /\ upd = NoUpdate
    /\ nev < MaxEvents
    /\ files' = [files EXCEPT ![p] = NoRecord]
    /\ upd' = [op |-> "delete", path |-> p, rec |-> NoRecord]
    /\ nev' = nev + 1
    /\ quiet' = Disturbed
    /\ UNCHANGED <<disk, missing, store, scanState, status, scanCancel, ctxDone, starting,
                   task, ret, hydrated, nscans, nfault>>
    /\ UNCHANGED aside

\* the store half of UpdateFile / RemoveFile (context.Background()); the
\* record written is the one the call was given; the error is dropped
UpdateStore ==
    /\ upd # NoUpdate
    /\ \E cause \in StoreOutcomes(FALSE) :
         /\ store' = IF cause # "" THEN store
                     ELSE [store EXCEPT ![upd.path] = upd.rec]
         /\ nfault' = Charged(cause)
    /\ upd' = NoUpdate
    /\ quiet' = Disturbed
    /\ UNCHANGED <<disk, missing, files, scanState, status, scanCancel, ctxDone, starting,
                   task, ret, hydrated, nscans, nev>>
    /\ UNCHANGED aside

\* LoadFromStore, which App.Run calls once, before its StartScan: LoadAll
\* fails, or the index is replaced and the status updated
LoadFromStore ==
    \E ok \in BOOLEAN, readable \in SUBSET Roots :
      /\ nscans = 0
      /\ ~hydrated
      /\ nfault + Cardinality(Roots \ readable) <= MaxFaults
      /\ nfault' = IF ok THEN nfault + Cardinality(Roots \ readable) ELSE nfault
      /\ IF ~ok
           THEN UNCHANGED <<files, status, hydrated, quiet>>
           ELSE /\ files' = store
                /\ LET stamps == {scanState[r].LastFullScan : r \in readable}
                                 \cup {scanState[r].LastIncrementalScan : r \in readable}
                                 \cup {0}
                       lastRun == CHOOSE t \in stamps : \A u \in stamps : u <= t
                   IN status' = [status EXCEPT !.LastSuccessfulRun = lastRun,
                                               !.Mode = ScanModeIncremental,
                                               !.Processed = 0,
                                               !.Error = NoErr]
                /\ hydrated' = TRUE
                /\ quiet' = Disturbed
      /\ UNCHANGED <<disk, missing, store, scanState, scanCancel, ctxDone, starting, task,
                     upd, ret, nscans, nev>>
    /\ UNCHANGED aside

(* ---------------------------- the filesystem --------------------------- *)
Changed == [quiet EXCEPT !.fs = IF status.Running THEN FALSE ELSE @]

\* a file is created or rewritten (its root directory exists afterwards)
FsWrite(p) ==
    /\ nev < MaxEvents
    /\ disk' = [disk EXCEPT ![p] = Touched(disk[p])]
    /\ missing' = missing \ {RootOf(p)}
    /\ nev' = nev + 1
    /\ quiet' = Changed
    /\ UNCHANGED <<files, store, scanState, status, scanCancel, ctxDone, starting, task,
                   upd, ret, hydrated, nscans, nfault>>
    /\ UNCHANGED aside

\* a file is deleted
FsDelete(p) ==
    /\ nev < MaxEvents
    /\ disk[p] # NoFile
    /\ disk' = [disk EXCEPT ![p] = NoFile]
    /\ nev' = nev + 1
    /\ quiet' = Changed
    /\ UNCHANGED <<missing, files, store, scanState, status, scanCancel, ctxDone, starting,
                   task, upd, ret, hydrated, nscans, nfault>>
    /\ UNCHANGED aside

\* a root directory is removed with everything under it
FsRemoveRoot(r) ==
    /\ nev < MaxEvents
    /\ r \notin missing
    /\ disk' = [p \in AllPaths |-> IF RootOf(p) = r THEN NoFile ELSE disk[p]]
    /\ missing' = missing \cup {r}
    /\ nev' = nev + 1
    /\ quiet' = Changed
    /\ UNCHANGED <<files, store, scanState, status, scanCancel, ctxDone, starting, task,
                   upd, ret, hydrated, nscans, nfault>>
    /\ UNCHANGED aside

(* ------------------------------- runScan ------------------------------- *)
\* the last error wins
KeepLast(firstErr, err) == err
\* "if firstErr == nil { firstErr = err }"
KeepFirst(firstErr, err) == IF firstErr = NoErr THEN err ELSE firstErr
\* history: the first error of the pass, and how many errors it has met
Recorded(t, err) == IF t.first = NoErr THEN err ELSE t.first

\* the loop of runScan moves to the next root, or ends
NextRoot(t) ==
    IF t.ri < Len(scanRoots)
      THEN [t EXCEPT !.ri = @ + 1, !.pc = "rootCheck", !.pending = <<>>, !.cur = NoRecord, !.del = ""]
      ELSE [t EXCEPT !.pc = "afterLoop", !.pending = <<>>, !.cur = NoRecord, !.del = ""]

\* every error of walkRoot ends the loop over the roots
AfterWalkErrorBreaks(t, err) ==
    [t EXCEPT !.firstErr = IF IsCanceled(err) THEN ErrCanceled ELSE KeepFirst(t.firstErr, err),
              !.first = Recorded(t, err), !.nerr = @ + 1,
              !.failed = IF IsCanceled(err) THEN @ ELSE @ \cup {t.cur.Path},
              !.pc = "afterLoop", !.pending = <<>>, !.cur = NoRecord, !.del = ""]
\* walkRoot returned err: break on cancellation, else keep the first error and continue
AfterWalkError(t, err) ==
    IF IsCanceled(err)
      THEN [t EXCEPT !.firstErr = ErrCanceled, !.first = Recorded(t, ErrCanceled), !.nerr = @ + 1,
                     !.pc = "afterLoop", !.pending = <<>>, !.cur = NoRecord, !.del = ""]
      ELSE NextRoot([t EXCEPT !.firstErr = KeepFirst(t.firstErr, err),
                              !.first = Recorded(t, err), !.nerr = @ + 1,
                              !.failed = @ \cup {t.cur.Path}])

\* a walker that returns the error of an entry it cannot read
AfterEntryErrorReturned(t, p) ==
    AfterWalkError([t EXCEPT !.cur.Path = p, !.skipped = @ \cup {p}],
                   <<"walk", p, IoCause>>)
\* the walker returns nil for an entry it cannot read: WalkDir goes on with
\* the next entry
AfterEntryError(t, p) == [t EXCEPT !.pending = Tail(@), !.skipped = @ \cup {p}]

\* a skip test that compares the size twice
UnchangedSizeTwice(existing, m) ==
    existing # NoRecord /\ existing.Size = m[1] /\ existing.ModTime = m[1]
\* the incremental skip test of the walker
Unchanged(existing, m) ==
    existing # NoRecord /\ existing.Size = m[1] /\ existing.ModTime = m[2]

\* candidates taken from every root, scanned or not
CandidatesAnyRoot(seen, scannedRoots) ==
    {p \in AllPaths : files[p] # NoRecord /\ p \notin seen}
\* the candidates removeMissing collects under the read lock
Candidates(seen, scannedRoots) ==
    {p \in AllPaths : files[p] # NoRecord /\ files[p].RootPath \in scannedRoots /\ p \notin seen}

\* the ScanState runScan writes for a root it has walked
WalkedState(state, mode, timestamp) ==
    IF mode = ScanModeFull
      THEN [LastFullScan |-> timestamp, LastIncrementalScan |-> timestamp]
      ELSE [state EXCEPT !.LastIncrementalScan = timestamp]

\* runScan: the ScanState of every root is read, failed reads are skipped
ScanBegin(id) ==
    /\ task[id].pc = "begin"
    /\ \E readable \in SUBSET Roots :
         /\ id \in ctxDone => readable = {}
         /\ id \notin ctxDone => nfault + Cardinality(Roots \ readable) <= MaxFaults
         /\ nfault' = IF id \in ctxDone THEN nfault ELSE nfault + Cardinality(Roots \ readable)
         /\ task' = [task EXCEPT ![id] =
              [@ EXCEPT !.pc = "rootCheck", !.ri = 1,
                        !.rootStates = [r \in Roots |->
                            IF r \in readable THEN scanState[r] ELSE ZeroState]]]
    /\ UNCHANGED <<disk, missing, files, store, scanState, status, scanCancel, ctxDone,
                   starting, upd, ret, hydrated, quiet, nscans, nev>>
    /\ UNCHANGED aside

\* runScan: the select at the head of the loop body (its break leaves the select only)
RootCheck(id) ==
    /\ task[id].pc = "rootCheck"
    /\ IF id \in ctxDone
         THEN /\ task' = [task EXCEPT ![id] =
                   [task[id] EXCEPT !.pc = "walkEnter", !.firstErr = ErrCanceled,
                                    !.first = Recorded(task[id], ErrCanceled),
                                    !.nerr = @ + 1]]
              /\ status' = [status EXCEPT !.Error = ErrCanceled]
         ELSE /\ task' = [task EXCEPT ![id].pc = "walkEnter"]
              /\ UNCHANGED status
    /\ UNCHANGED <<disk, missing, files, store, scanState, scanCancel, ctxDone, starting,
                   upd, ret, hydrated, quiet, nscans, nev, nfault>>
    /\ UNCHANGED aside

\* walkRoot: WalkDir visits the root itself and reads its directory
WalkEnter(id) ==
    /\ task[id].pc = "walkEnter"
    /\ LET t == [task[id] EXCEPT !.walked = @ \cup {scanRoots[task[id].ri]}]
           root == scanRoots[t.ri]
       IN task' = [task EXCEPT ![id] =
            IF root \in missing
              THEN [t EXCEPT !.pc = "walk", !.pending = <<>>, !.skipped = @ \cup {root}]
            ELSE IF id \in ctxDone THEN AfterWalkError(t, ErrCanceled)
            ELSE [t EXCEPT !.pc = "walk", !.pending = Entries(root)]]
    /\ UNCHANGED <<disk, missing, files, store, scanState, status, scanCancel, ctxDone,
                   starting, upd, ret, hydrated, quiet, nscans, nev, nfault>>
    /\ UNCHANGED aside

\* walkRoot: the walker on one regular file, up to the index half of saveRecord
WalkFile(id) ==
    /\ task[id].pc = "walk"
    /\ task[id].pending # <<>>
    /\ LET t == task[id]
           p == Head(t.pending)
           root == scanRoots[t.ri]
           rec == FileRecord(p, disk[p], root)
           v == [t EXCEPT !.processed = @ + 1, !.seen = @ \cup {p}]
       IN IF id \in ctxDone
            THEN /\ task' = [task EXCEPT ![id] = AfterWalkError(t, ErrCanceled)]
                 /\ UNCHANGED <<files, status>>
          ELSE IF disk[p] = NoFile
            THEN /\ task' = [task EXCEPT ![id] = AfterEntryError(t, p)]
                 /\ UNCHANGED <<files, status>>
          ELSE /\ status' = [status EXCEPT !.Processed = v.processed, !.CurrentPath = p]
               /\ IF t.mode = ScanModeIncremental /\ Unchanged(files[p], disk[p])
                    THEN /\ task' = [task EXCEPT ![id] =
                              [v EXCEPT !.pending = Tail(t.pending),
                                        !.visit = [path |-> p, writes |-> 0, upserts |-> 0]]]
                         /\ UNCHANGED files
                    ELSE /\ files' = [files EXCEPT ![p] = rec]
                         /\ task' = [task EXCEPT ![id] =
                              [v EXCEPT !.pc = "walkStore", !.cur = rec,
                                        !.visit = [path |-> p, writes |-> 1, upserts |-> 0]]]
    /\ UNCHANGED <<disk, missing, store, scanState, scanCancel, ctxDone, starting, upd,
                   ret, hydrated, quiet, nscans, nev, nfault>>
    /\ UNCHANGED aside

\* walkRoot: the store half of saveRecord, and what the walker does with its error
WalkStore(id) ==
    /\ task[id].pc = "walkStore"
    /\ LET t == [task[id] EXCEPT !.visit.upserts = @ + 1]
           p == t.cur.Path
       IN \E cause \in StoreOutcomes(id \in ctxDone) :
            /\ nfault' = Charged(cause)
            /\ IF cause = ""
              THEN /\ store' = [store EXCEPT ![p] = t.cur]
                   /\ task' = [task EXCEPT ![id] =
                        [t EXCEPT !.pc = "walk", !.pending = Tail(t.pending), !.cur = NoRecord, !.del = ""]]
              ELSE /\ task' = [task EXCEPT ![id] =
                        AfterWalkError(t, StoreErr("upsert record", p, cause))]
                   /\ UNCHANGED store
    /\ UNCHANGED <<disk, missing, files, scanState, status, scanCancel, ctxDone, starting,
                   upd, ret, hydrated, quiet, nscans, nev>>
    /\ UNCHANGED aside

\* runScan: walkRoot returned nil: the root is scanned and its ScanState written
WalkDone(id) ==
    /\ task[id].pc = "walk"
    /\ task[id].pending = <<>>
    /\ LET t == [task[id] EXCEPT !.scannedRoots = @ \cup {scanRoots[task[id].ri]}]
           root == scanRoots[t.ri]
           state == WalkedState(t.rootStates[root], t.mode, Now(id, t.ri))
       IN \E cause \in StoreOutcomes(id \in ctxDone) :
            /\ nfault' = Charged(cause)
            /\ IF cause = ""
              THEN /\ scanState' = [scanState EXCEPT ![root] = state]
                   /\ task' = [task EXCEPT ![id] = NextRoot(t)]
              ELSE /\ UNCHANGED scanState
                   /\ LET err == StoreErr("update scan state", root, cause)
                      IN task' = [task EXCEPT ![id] =
                           NextRoot([t EXCEPT !.firstErr = KeepFirst(t.firstErr, err),
                                              !.first = Recorded(t, err), !.nerr = @ + 1])]
    /\ UNCHANGED <<disk, missing, files, store, status, scanCancel, ctxDone, starting, upd,
                   ret, hydrated, quiet, nscans, nev>>
    /\ UNCHANGED aside

\* where removeMissing goes once a candidate is dealt with
AfterCandidate(t, rest) ==
    [t EXCEPT !.candidates = rest, !.cur = NoRecord, !.del = "",
              !.pc = IF rest = {} THEN "finalize" ELSE "remove"]

\* runScan after the loop: removeMissing collects its candidates, if any root was scanned
Reconcile(id) ==
    /\ task[id].pc = "afterLoop"
    /\ LET t == task[id]
           cands == IF t.scannedRoots # {} THEN Candidates(t.seen, t.scannedRoots) ELSE {}
       IN task' = [task EXCEPT ![id] = AfterCandidate(t, cands)]
    /\ UNCHANGED <<disk, missing, files, store, scanState, status, scanCancel, ctxDone,
                   starting, upd, ret, hydrated, quiet, nscans, nev, nfault>>
    /\ UNCHANGED aside

\* removeMissing: os.Stat on one candidate, and the index half of deleteRecord
RemoveStat(id) ==
    /\ task[id].pc = "remove"
    /\ \E p \in task[id].candidates :
         LET t == task[id]
         IN IF disk[p] # NoFile
              THEN /\ task' = [task EXCEPT ![id] = AfterCandidate(t, t.candidates \ {p})]
                   /\ UNCHANGED files
              ELSE /\ files' = [files EXCEPT ![p] = NoRecord]
                   /\ task' = [task EXCEPT ![id] =
                        [t EXCEPT !.pc = "removeStore", !.del = p, !.removed = @ \cup {p}]]
    /\ UNCHANGED <<disk, missing, store, scanState, status, scanCancel, ctxDone, starting,
                   upd, ret, hydrated, quiet, nscans, nev, nfault>>
    /\ UNCHANGED aside

\* removeMissing: the store half of deleteRecord; its error ends removeMissing
RemoveStore(id) ==
    /\ task[id].pc = "removeStore"
    /\ LET t == task[id]
           p == t.del
       IN \E cause \in StoreOutcomes(id \in ctxDone) :
            /\ nfault' = Charged(cause)
            /\ IF cause = ""
              THEN /\ store' = [store EXCEPT ![p] = NoRecord]
                   /\ task' = [task EXCEPT ![id] = AfterCandidate(t, t.candidates \ {p})]
              ELSE /\ UNCHANGED store
                   /\ LET err == StoreErr("delete record", p, cause)
                      IN task' = [task EXCEPT ![id] =
                           AfterCandidate([t EXCEPT !.firstErr = KeepFirst(t.firstErr, err),
                                                    !.first = Recorded(t, err), !.nerr = @ + 1], {})]
    /\ UNCHANGED <<disk, missing, files, scanState, status, scanCancel, ctxDone, starting,
                   upd, ret, hydrated, quiet, nscans, nev>>
    /\ UNCHANGED aside

\* a final status that leaves CurrentPath as the walker set it
FinalStatusKeepsPath(t, finish) ==
    IF t.firstErr # NoErr
      THEN [status EXCEPT !.Running = FALSE, !.FinishedAt = finish,
                          !.Processed = t.processed, !.Error = t.firstErr]
      ELSE [status EXCEPT !.Running = FALSE, !.FinishedAt = finish,
                          !.Processed = t.processed,
                          !.Error = NoErr, !.LastSuccessfulRun = finish]
\* a final status that stamps LastSuccessfulRun whatever the outcome
FinalStatusStamped(t, finish) ==
    [status EXCEPT !.Running = FALSE, !.FinishedAt = finish,
                   !.Processed = t.processed, !.CurrentPath = "",
                   !.Error = t.firstErr, !.LastSuccessfulRun = finish]
\* a final status that leaves Running set
FinalStatusRunning(t, finish) ==
    [status EXCEPT !.FinishedAt = finish, !.Processed = t.processed, !.CurrentPath = "",
                   !.Error = t.firstErr]
\* the status runScan publishes when it ends
FinalStatus(t, finish) ==
    IF t.firstErr # NoErr
      THEN [status EXCEPT !.Running = FALSE, !.FinishedAt = finish,
                          !.Processed = t.processed, !.CurrentPath = "",
                          !.Error = t.firstErr]
      ELSE [status EXCEPT !.Running = FALSE, !.FinishedAt = finish,
                          !.Processed = t.processed, !.CurrentPath = "",
                          !.Error = NoErr, !.LastSuccessfulRun = finish]

\* runScan: the final updateStatus
Finalize(id) ==
    /\ task[id].pc = "finalize"
    /\ status' = FinalStatus(task[id], Now(id, Len(scanRoots) + 1))
    /\ task' = [task EXCEPT ![id].pc = "defer"]
    /\ ctxDone' = ctxDone \ {id}
    /\ UNCHANGED <<disk, missing, files, store, scanState, scanCancel, starting, upd, ret,
                   hydrated, quiet, nscans, nev, nfault>>
    /\ UNCHANGED aside

\* runScan: the deferred reset of scanCancel
DeferReset(id) ==
    /\ task[id].pc = "defer"
    /\ scanCancel' = 0
    /\ task' = [task EXCEPT ![id] = IdleTask]
    /\ UNCHANGED <<disk, missing, files, store, scanState, status, ctxDone, starting, upd,
                   ret, hydrated, quiet, nscans, nev, nfault>>
    /\ UNCHANGED aside

\* one step of a runScan goroutine
ScanStep(id) ==
    \/ ScanBegin(id)
    \/ RootCheck(id)
    \/ WalkEnter(id)
    \/ WalkFile(id)
    \/ WalkStore(id)
    \/ WalkDone(id)
    \/ Reconcile(id)
    \/ RemoveStat(id)
    \/ RemoveStore(id)
    \/ Finalize(id)
    \/ DeferReset(id)

\* StartScan, StopScan, LoadFromStore and the scan goroutines
Control(limit) ==
    \/ StartScanReject
    \/ \E mode \in Modes : StartScanAccept(mode, limit)
    \/ StartScanLaunch
    \/ StopScan
    \/ LoadFromStore
    \/ \E id \in ScanIds : ScanStep(id)

\* the filesystem changes, single records are updated
Disturbance ==
    \/ \E p \in AllPaths : UpdateFileIndex(p)
    \/ \E p \in AllPaths : RemoveFileIndex(p)
    \/ UpdateStore
    \/ \E p \in DiskPaths : FsWrite(p)
    \/ \E p \in DiskPaths : FsDelete(p)
    \/ \E r \in Roots : FsRemoveRoot(r)

Next == Control(MaxScans) \/ Disturbance

Spec == Init /\ [][Next]_vars

\* scans one after another, and overlapping, over an unchanging filesystem
Rescan == Control(MaxRescans)

SpecScans == Init /\ [][Rescan]_vars

\* scans over an unchanging filesystem, with every scan goroutine scheduled
\* again and again and every store call returning
Scan == Control(MaxScans)
FairScan == Init /\ [][Scan]_vars /\ \A id \in ScanIds : WF_vars(ScanStep(id))

(* ------------------------------ properties ----------------------------- *)
\* the scan goroutine id is walking or reconciling, its final status not yet written
Working(id) == task[id].pc \notin {"idle", "defer"}
\* an accepted StartScan call that has not yet started its goroutine
Launching == IF starting # NoStart THEN 1 ELSE 0
\* the goroutine id has just written its final status
Finalized(id) ==
    /\ task[id].pc = "defer"
    /\ ~status.Running
    /\ status.FinishedAt = Now(id, Len(scanRoots) + 1)

\* C1: at most one scan goroutine walks or reconciles at any time, counting a
\* StartScan call that was let through and is about to start one; and while
\* one does, status.Running is true, so that a further StartScan is rejected.
SingleFlight ==
    /\ Cardinality({id \in ScanIds : Working(id)}) + Launching <= 1
    /\ \A id \in ScanIds : Working(id) => status.Running
\* a second scan is under way after the first ended, and a StartScan was just rejected
SingleFlightWitness ==
    \E id \in ScanIds :
        /\ id > 1
        /\ task[id].pc = "walkStore"
        /\ ret = ErrScanInProgress

\* C2: a StartScan call made while status.Running is true returns
\* ErrScanInProgress and changes no field of the status, no record of the
\* index or the store, no ScanState, and neither the cancel handle nor the
\* running scan.
RejectedChangesNothing ==
    [][(status.Running /\ (StartScanReject \/ \E mode \in Modes : StartScanAccept(mode, MaxRescans)))
         => /\ ret' = ErrScanInProgress
            /\ UNCHANGED <<status, files, store, scanState, scanCancel, ctxDone, starting, task>>]_vars
\* a StartScan was rejected in the middle of a walk, and the walk's status is as it was
RejectedChangesNothingWitness ==
    /\ ret = ErrScanInProgress
    /\ status.Running
    /\ status.Processed > 0
    /\ scanCancel # 0
    /\ \E id \in ScanIds : task[id].pc = "walk" /\ scanCancel = id

\* C3: while a launched scan is running and has not been cancelled, the
\* tracked cancel handle is that scan's own, so that StopScan would cancel it.
HandleIsOwn ==
    \A id \in ScanIds : (Working(id) /\ id \notin ctxDone) => scanCancel = id

\* C4: when a scan of an indexer hydrated from its store ends without an
\* error, the store holds exactly the records of the index.
StoreMatchesIndex ==
    \A id \in ScanIds :
        (Finalized(id) /\ hydrated /\ status.Error = NoErr) => files = store

\* the files WalkDir would visit after p in the root of p
After(p) ==
    {q \in DiskPaths : /\ RootOf(q) = RootOf(p)
                       /\ disk[q] # NoFile
                       /\ \E i, j \in 1..Len(DirOrder) : i < j /\ DirOrder[i] = p /\ DirOrder[j] = q}
\* the files on disk under a root
OnDisk(r) == {q \in DiskPaths : RootOf(q) = r /\ disk[q] # NoFile}

FirstErrorWins ==
    \A id \in ScanIds : Finalized(id) => status.Error = task[id].first
\* C6 (amended): the error a scan reports is the first error recorded during
\* the pass unless the pass observes a cancellation, which replaces it; no
\* other later error replaces it, and an error is reported iff one was recorded.
FirstErrorOrCancellation ==
    \A id \in ScanIds :
        Finalized(id) => /\ status.Error \in {task[id].first, ErrCanceled}
                         /\ (status.Error = NoErr) = (task[id].first = NoErr)
\* two store failures in one pass: the upsert error is reported, not the later one
FirstErrorOrCancellationWitness ==
    \E id \in ScanIds :
        /\ Finalized(id)
        /\ task[id].nerr >= 2
        /\ Len(task[id].first) = 3
        /\ task[id].first[1] = "upsert record"
        /\ status.Error = task[id].first
        /\ id \notin ctxDone

\* a record leaves the index, or the store, in a step of a scan (a step of
\* RemoveFile records its call in upd)
IndexRemoval(p) == files[p] # NoRecord /\ files'[p] = NoRecord /\ upd' = upd /\ status.Running
StoreRemoval(p) == store[p] # NoRecord /\ store'[p] = NoRecord /\ upd' = upd
\* a scan removes a record from the index only if the record's root was
\* walked to its end in this pass, its path was not seen, and the path is
\* absent from disk at that moment; from the store only after that
RemovalScoped ==
    [][\A p \in AllPaths :
         /\ IndexRemoval(p) =>
               \E id \in ScanIds : /\ Working(id)
                                    /\ files[p].RootPath \in task[id].scannedRoots
                                    /\ p \notin task[id].seen
                                    /\ disk[p] = NoFile
         /\ StoreRemoval(p) =>
               \E id \in ScanIds : /\ Working(id)
                                    /\ p \in task[id].removed
                                    /\ RootOf(p) \in task[id].scannedRoots
                                    /\ p \notin task[id].seen]_vars
\* the records that were in the index when scan id started, under roots it
\* did not walk to their end
Unscanned(id) ==
    {p \in AllPaths : /\ task[id].before[p] # NoRecord
                      /\ task[id].before[p].RootPath \notin task[id].scannedRoots}
\* at the end of a scan, with no other writer on the index meanwhile
AtEnd(id) == task[id].pc = "finalize" /\ quiet.idx
UnscannedIdentical ==
    \A id \in ScanIds : AtEnd(id) => \A p \in Unscanned(id) : files[p] = task[id].before[p]
UnscannedKept ==
    \A id \in ScanIds :
        AtEnd(id) => \A p \in Unscanned(id) :
                        /\ files[p] # NoRecord
                        /\ p \notin task[id].seen => files[p] = task[id].before[p]

\* C7 (as stated): a scan removes a record only if its rootPath is a scanned
\* root, its path was not seen and it is absent from disk; and every record
\* whose rootPath is not a scanned root of the pass is identical before and
\* after the scan.
ReconciliationScoped == RemovalScoped /\ []UnscannedIdentical
\* C7 (amended): the removals are scoped as stated; a record whose rootPath
\* is not a scanned root of the pass is never removed by it, and is identical
\* before and after unless the walk visited its path before it broke off.
ReconciliationScopedToWalked == RemovalScoped /\ []UnscannedKept
\* /A was removed from disk and its records reconciled away; the walk of /B
\* failed after /B/b1, and the record of the vanished /B/b2 is still there
ReconciliationScopedWitness ==
    \E id \in ScanIds :
        /\ AtEnd(id)
        /\ task[id].scannedRoots = {"/A"}
        /\ task[id].removed # {}
        /\ "/B/b1" \in task[id].seen
        /\ task[id].before["/B/b2"] # NoRecord
        /\ files["/B/b2"] = task[id].before["/B/b2"]

\* a scan of a hydrated indexer is about to end without an error; neither the
\* filesystem nor another writer of the index has moved since it started, and
\* no UpdateFile or RemoveFile call is in flight
CleanEnd(id) ==
    /\ task[id].pc = "finalize"
    /\ task[id].firstErr = NoErr
    /\ hydrated
    /\ quiet.fs /\ quiet.idx
    /\ upd = NoUpdate
\* the index holds, under each configured root, exactly the files on disk
IndexMatchesDisk ==
    \A p \in DiskPaths :
        files[p] = IF disk[p] = NoFile THEN NoRecord ELSE FileRecord(p, disk[p], RootOf(p))
\* no file that is gone from disk is left in the store
StoreForgetsDeleted == \A p \in DiskPaths : disk[p] = NoFile => store[p] = NoRecord

\* C8: after an error-free scan over an unchanged filesystem the index holds,
\* for every configured root, exactly the files on disk, and the files that
\* were deleted from disk are gone from the index and from the store.
IndexAndStoreMatchDisk ==
    \A id \in ScanIds : CleanEnd(id) => IndexMatchesDisk /\ StoreForgetsDeleted
IndexMatchesDiskAtEnd ==
    \A id \in ScanIds : CleanEnd(id) => IndexMatchesDisk

\* a step in which the walker of scan id visits a regular file
Visits(id) == task[id].pc = "walk" /\ task'[id].processed = task[id].processed + 1
\* a step in which scan id issues the store upsert of the file it visits
Upserts(id) == task[id].pc = "walkStore" /\ task'[id].pc # "walkStore"
\* the index record of p has the size and the modification time p has on disk
Matches(p) ==
    files[p] # NoRecord /\ files[p].Size = disk[p][1] /\ files[p].ModTime = disk[p][2]

\* C9: in incremental mode a visited file whose index record matches the
\* size and modification time on disk causes no index write and no store
\* write; in full mode every visited file causes exactly one index write,
\* followed by exactly one store upsert.
WriteDiscipline ==
    [][\A id \in ScanIds :
         /\ Visits(id) =>
               LET p == task'[id].visit.path
               IN /\ (task[id].mode = ScanModeIncremental /\ Matches(p)) =>
                        /\ UNCHANGED <<files, store>>
                        /\ task'[id].pc = "walk"
                        /\ task'[id].visit = [path |-> p, writes |-> 0, upserts |-> 0]
                  /\ task[id].mode = ScanModeFull =>
                        /\ files' = [files EXCEPT ![p] = FileRecord(p, disk[p], RootOf(p))]
                        /\ UNCHANGED store
                        /\ task'[id].pc = "walkStore"
                        /\ task'[id].visit = [path |-> p, writes |-> 1, upserts |-> 0]
         /\ Upserts(id) =>
               LET p == task[id].visit.path
               IN /\ UNCHANGED files
                  /\ store' \in {store, [store EXCEPT ![p] = task[id].cur]}
                  /\ task'[id].visit = [path |-> p, writes |-> 1, upserts |-> 1]
         /\ (task[id].pc = "walk" /\ task[id].mode = ScanModeFull /\ task[id].visit # NoVisit) =>
               task[id].visit.writes = 1 /\ task[id].visit.upserts = 1]_vars
\* an incremental scan of a hydrated indexer has just skipped the unchanged
\* /A/a2 after rewriting the changed /A/a1
WriteDisciplineWitness ==
    \E id \in ScanIds :
        /\ task[id].mode = ScanModeIncremental
        /\ task[id].pc = "walk"
        /\ task[id].visit = [path |-> "/A/a2", writes |-> 0, upserts |-> 0]
        /\ files["/A/a2"] = store["/A/a2"]
        /\ disk["/A/a1"] # NoFile
        /\ files["/A/a1"] = FileRecord("/A/a1", disk["/A/a1"], "/A")
        /\ store["/A/a1"] = files["/A/a1"]

\* the last configured root
LastRoot == scanRoots[Len(scanRoots)]
\* scan id has ended as a cancelled scan does
EndedCancelled(id) ==
    /\ ~status.Running
    /\ status.Error # NoErr
    /\ status.LastSuccessfulRun # status.FinishedAt

\* C10 (as stated): a scan whose context was cancelled before its loop over
\* the roots had ended reports the cancellation error when it ends, and
\* lastSuccessfulRun is not set to its finish time.
CancelledReportsCancellation ==
    \A id \in ScanIds :
        (Finalized(id) /\ task[id].cancelEarly)
          => EndedCancelled(id) /\ status.Error = ErrCanceled
\* C10 (amended): a scan whose context is cancelled before its loop over the
\* roots has ended eventually ends with running=false, a non-empty error and
\* lastSuccessfulRun not set to its finish time; the error is the
\* cancellation error unless the cancellation came after the last callback
\* of the last root's walk, whose walk then counts as completed. Running
\* becomes true again only by an accepted StartScan.
CancelledScanEnds ==
    /\ \A id \in ScanIds :
          (Working(id) /\ task[id].cancelEarly) ~> (Finalized(id) /\ task[id].cancelEarly)
    /\ [](\A id \in ScanIds :
            (Finalized(id) /\ task[id].cancelEarly)
              => /\ EndedCancelled(id)
                 /\ status.Error = ErrCanceled \/ LastRoot \in task[id].scannedRoots)
    /\ [][(~status.Running /\ status'.Running) => nscans' = nscans + 1]_vars
\* StopScan during the walk of /A: the scan ended with the cancellation error
\* without walking /B
CancelledScanEndsWitness ==
    \E id \in ScanIds :
        /\ Finalized(id)
        /\ task[id].cancelEarly
        /\ task[id].seen = {"/A/a1"}
        /\ task[id].walked = {"/A"}
        /\ status.Error = ErrCanceled
        /\ status.LastSuccessfulRun = 0

\* a step in which scan id writes its final status
Finishes(id) == task[id].pc = "finalize" /\ task'[id].pc = "defer"

\* C11: when a scan finishes, the status has running=false, finishedAt set
\* to the finish time (after startedAt), processed equal to the number of
\* files the pass visited and currentPath empty; error is empty iff the pass
\* recorded no error, and then lastSuccessfulRun equals finishedAt; otherwise
\* the recorded error is kept and lastSuccessfulRun is left as it was.
FinalizationWritesStatus ==
    [][\A id \in ScanIds :
         Finishes(id) =>
           /\ ~status'.Running
           /\ status'.FinishedAt = Now(id, Len(scanRoots) + 1)
           /\ status'.FinishedAt > status'.StartedAt
           /\ status'.StartedAt = status.StartedAt /\ status'.Mode = task[id].mode
           /\ status'.Processed = Cardinality(task[id].seen)
           /\ status'.CurrentPath = ""
           /\ (status'.Error = NoErr) = (task[id].first = NoErr)
           /\ task[id].first = NoErr => status'.LastSuccessfulRun = status'.FinishedAt
           /\ task[id].first # NoErr =>
                 /\ status'.Error = task[id].firstErr
                 /\ status'.LastSuccessfulRun = status.LastSuccessfulRun
                 /\ status'.LastSuccessfulRun # status'.FinishedAt]_vars
\* a second scan has ended without an error after visiting the three files on disk
FinalizationWritesStatusWitness ==
    \E id \in ScanIds :
        /\ id > 1
        /\ Finalized(id)
        /\ status.Processed = 3
        /\ status.Error = NoErr
        /\ status.LastSuccessfulRun = status.FinishedAt
        /\ status.CurrentPath = ""

(* ------------------------------ the locks ------------------------------ *)
\* what each call does with the two locks, in program order:
\* <<operation, lock, what it does to the index or the status before the
\* operation returns>>. StartScan is the accepting call; the scan is the one
\* it starts: the walker on one file (updateStatus, Lookup, saveRecord), one
\* deleteRecord of removeMissing, the final updateStatus and the deferred
\* reset of the cancel handle.
Code(c) ==
    CASE c = "startScan" ->
           << <<"Lock", "statusMu", "">>, <<"RLock", "mu", "">>,
              <<"RUnlock", "mu", "count">>, <<"Unlock", "statusMu", "accept">>,
              <<"Lock", "scanMu", "">>, <<"Unlock", "scanMu", "">> >>
      [] c = "status" ->
           << <<"RLock", "statusMu", "">>, <<"RUnlock", "statusMu", "snap">>,
              <<"RLock", "mu", "">>, <<"RUnlock", "mu", "known">> >>
      [] c \in {"search", "lookup", "roots"} ->
           << <<"RLock", "mu", "">>, <<"RUnlock", "mu", "">> >>
      [] c = "stopScan" -> << <<"Lock", "scanMu", "">>, <<"Unlock", "scanMu", "">> >>
      [] c = "loadFromStore" ->
           << <<"Lock", "mu", "">>, <<"Unlock", "mu", "load">>,
              <<"Lock", "statusMu", "">>, <<"Unlock", "statusMu", "loaded">> >>
      [] c = "updateFile" -> << <<"Lock", "mu", "">>, <<"Unlock", "mu", "save">> >>
      [] c = "removeFile" -> << <<"Lock", "mu", "">>, <<"Unlock", "mu", "delete">> >>
      [] OTHER ->
           << <<"Lock", "statusMu", "">>, <<"Unlock", "statusMu", "progress">>,
              <<"RLock", "mu", "">>, <<"RUnlock", "mu", "">>,
              <<"Lock", "mu", "">>, <<"Unlock", "mu", "scanSave">>,
              <<"Lock", "mu", "">>, <<"Unlock", "mu", "scanDelete">>,
              <<"Lock", "statusMu", "">>, <<"Unlock", "statusMu", "final">>,
              <<"Lock", "scanMu", "">>, <<"Unlock", "scanMu", "">> >>

Returned(c) == at[c] > Len(Code(c))
\* the next lock operation of a call that has not returned
Op(c) == Code(c)[at[c]]
LockOf(name) == IF name = "mu" THEN mu ELSE IF name = "statusMu" THEN statusMu ELSE scanMu
Holds(l, c) == l.w = c \/ c \in l.r
\* sync.RWMutex: a reader waits for the writer and for every waiting writer;
\* a writer waits for the writer and for every reader
CanRLock(l) == l.w = "" /\ l.q = {}
\* a writer that does not wait for the readers
CanLockBesideReaders(l) == l.w = ""
CanLock(l) == l.w = "" /\ l.r = {}
\* the call waits in the lock operation it has reached
Waits(c) ==
    /\ ~Returned(c)
    /\ \/ Op(c)[1] = "RLock" /\ ~CanRLock(LockOf(Op(c)[2]))
       \/ Op(c)[1] = "Lock" /\ c \in LockOf(Op(c)[2]).q /\ ~CanLock(LockOf(Op(c)[2]))

\* the variables no lock operation touches
settled == <<disk, missing, store, scanState, scanCancel, ctxDone, starting, task, upd,
             ret, hydrated, quiet, nscans, nev, nfault, arg, res>>

SetLock(name, l) ==
    /\ mu' = IF name = "mu" THEN l ELSE mu
    /\ statusMu' = IF name = "statusMu" THEN l ELSE statusMu
    /\ scanMu' = IF name = "scanMu" THEN l ELSE scanMu

\* a Status that returns the KnownFiles of the status it copied
KnownFilesCopied == reply.snap.KnownFiles
\* Status: the KnownFiles it returns
KnownFiles == countFiles

\* what a call does inside its critical section
Does(what) ==
    CASE what = "count" ->
           reply' = [reply EXCEPT !.count = countFiles] /\ UNCHANGED <<files, status>>
      [] what = "accept" ->
           /\ status' = [AcceptedStatus(1, ScanModeIncremental) EXCEPT !.KnownFiles = reply.count]
           /\ UNCHANGED <<files, reply>>
      [] what = "snap" ->
           reply' = [reply EXCEPT !.snap = status] /\ UNCHANGED <<files, status>>
      [] what = "known" ->
           reply' = [reply EXCEPT !.known = KnownFiles] /\ UNCHANGED <<files, status>>
      [] what = "load" -> files' = store /\ UNCHANGED <<status, reply>>
      [] what = "loaded" ->
           /\ status' = [status EXCEPT !.LastSuccessfulRun = 0, !.Mode = ScanModeIncremental,
                                        !.Processed = 0, !.Error = NoErr]
           /\ UNCHANGED <<files, reply>>
      [] what = "save" ->
           /\ files' = [files EXCEPT !["/B/b2"] = FileRecord("/B/b2", WatchMeta, "/B")]
           /\ UNCHANGED <<status, reply>>
      [] what = "delete" ->
           files' = [files EXCEPT !["/A/a1"] = NoRecord] /\ UNCHANGED <<status, reply>>
      [] what = "progress" ->
           /\ status' = [status EXCEPT !.Processed = 1, !.CurrentPath = "/A/a2"]
           /\ UNCHANGED <<files, reply>>
      [] what = "scanSave" ->
           /\ files' = [files EXCEPT !["/A/a2"] = FileRecord("/A/a2", disk["/A/a2"], "/A")]
           /\ UNCHANGED <<status, reply>>
      [] what = "scanDelete" ->
           files' = [files EXCEPT !["/B/b2"] = NoRecord] /\ UNCHANGED <<status, reply>>
      [] what = "final" ->
           /\ status' = FinalStatus([IdleTask EXCEPT !.processed = 1], Now(1, Len(scanRoots) + 1))
           /\ UNCHANGED <<files, reply>>
      [] OTHER -> UNCHANGED <<files, status, reply>>

\* the scan runs once StartScan has returned
Started(c) == c = "scan" => Returned("startScan")

\* Lock, first half: the writer announces itself
Announce(c) ==
    /\ ~Returned(c) /\ Started(c)
    /\ Op(c)[1] = "Lock"
    /\ c \notin LockOf(Op(c)[2]).q
    /\ SetLock(Op(c)[2], [LockOf(Op(c)[2]) EXCEPT !.q = @ \cup {c}])
    /\ UNCHANGED <<at, files, status, reply, settled>>

\* Lock, second half: no writer, no reader left
Lock(c) ==
    /\ ~Returned(c)
    /\ Op(c)[1] = "Lock"
    /\ c \in LockOf(Op(c)[2]).q
    /\ CanLock(LockOf(Op(c)[2]))
    /\ SetLock(Op(c)[2], [LockOf(Op(c)[2]) EXCEPT !.w = c, !.q = @ \ {c}])
    /\ at' = [at EXCEPT ![c] = @ + 1]
    /\ UNCHANGED <<files, status, reply, settled>>

RLock(c) ==
    /\ ~Returned(c)
    /\ Op(c)[1] = "RLock"
    /\ CanRLock(LockOf(Op(c)[2]))
    /\ SetLock(Op(c)[2], [LockOf(Op(c)[2]) EXCEPT !.r = @ \cup {c}])
    /\ at' = [at EXCEPT ![c] = @ + 1]
    /\ UNCHANGED <<files, status, reply, settled>>

\* Unlock / RUnlock, with what the call did under the lock
Unlock(c) ==
    /\ ~Returned(c)
    /\ Op(c)[1] \in {"Unlock", "RUnlock"}
    /\ Does(Op(c)[3])
    /\ SetLock(Op(c)[2], IF Op(c)[1] = "Unlock"
                            THEN [LockOf(Op(c)[2]) EXCEPT !.w = ""]
                            ELSE [LockOf(Op(c)[2]) EXCEPT !.r = @ \ {c}])
    /\ at' = [at EXCEPT ![c] = @ + 1]
    /\ UNCHANGED settled

Locking ==
    \E c \in Calls : Announce(c) \/ Lock(c) \/ RLock(c) \/ Unlock(c)

\* the calls of the Indexer, each made once, interleaved at every lock operation
SpecLocks == Init /\ [][Locking]_vars

\* C12: no call holds the index lock and the status lock at the same time.
LocksNeverNested ==
    \A c \in Calls : ~(Holds(mu, c) /\ Holds(statusMu, c))

\* C13: a Status call never waits for the index lock.
StatusNeverWaitsForIndex ==
    ~(~Returned("status") /\ Op("status")[2] = "mu" /\ Waits("status"))

\* a step in which Status counts the index
StatusCounts == ~Returned("status") /\ Op("status")[3] = "known" /\ Returned("status")'
\* C20: the KnownFiles a Status call returns is the number of entries the
\* index has at the moment the call reads it, whatever the status holds.
KnownFilesIsLive ==
    [][StatusCounts => reply'.known = Cardinality({p \in AllPaths : files[p] # NoRecord})]_vars
\* Status has returned during a scan with a count that is not the one
\* StartScan put into the status
KnownFilesIsLiveWitness ==
    /\ Returned("status")
    /\ reply.snap.Running
    /\ reply.known # reply.snap.KnownFiles
    /\ reply.known = 3

(* ------------------------------- strings ------------------------------- *)
\* a Go string is the sequence of its characters; "NL" stands for a newline
\* the byte of a character, as strings.Compare and < on strings order them
Byte(c) ==
    CASE c = "NL" -> 10 [] c = " " -> 32 [] c = "*" -> 42 [] c = "." -> 46 [] c = "/" -> 47
      [] c = "1" -> 49 [] c = "2" -> 50
      [] c = "?" -> 63 [] c = "A" -> 65 [] c = "B" -> 66 [] c = "M" -> 77 [] c = "T" -> 84
      [] c = "Z" -> 90
      [] c = "\\" -> 92 [] c = "a" -> 97 [] c = "b" -> 98 [] c = "m" -> 109 [] c = "z" -> 122
      [] OTHER -> 116
\* strings.ToLower
LowerChar(c) ==
    CASE c = "A" -> "a" [] c = "B" -> "b" [] c = "C" -> "c" [] c = "E" -> "e" [] c = "F" -> "f"
      [] c = "I" -> "i" [] c = "L" -> "l" [] c = "M" -> "m" [] c = "N" -> "n" [] c = "R" -> "r"
      [] c = "T" -> "t" [] c = "U" -> "u" [] OTHER -> c
ToLower(str) == [i \in 1..Len(str) |-> LowerChar(str[i])]
\* strings.Compare
RECURSIVE Compare(_, _)
Compare(a, b) ==
    IF a = <<>> THEN (IF b = <<>> THEN 0 ELSE -1)
    ELSE IF b = <<>> THEN 1
    ELSE IF Byte(a[1]) < Byte(b[1]) THEN -1
    ELSE IF Byte(a[1]) > Byte(b[1]) THEN 1
    ELSE Compare(Tail(a), Tail(b))
\* strings.TrimSpace
IsSpace(c) == c \in {" ", "NL"}
RECURSIVE TrimLeft(_)
TrimLeft(str) == IF str # <<>> /\ IsSpace(str[1]) THEN TrimLeft(Tail(str)) ELSE str
RECURSIVE TrimRight(_)
TrimRight(str) ==
    IF str # <<>> /\ IsSpace(str[Len(str)]) THEN TrimRight(SubSeq(str, 1, Len(str) - 1)) ELSE str
TrimSpace(str) == TrimRight(TrimLeft(str))
\* strings.HasPrefix, strings.Contains
HasPrefix(str, prefix) ==
    Len(prefix) <= Len(str) /\ SubSeq(str, 1, Len(prefix)) = prefix
Contains(str, sub) ==
    \E i \in 1..(Len(str) + 1) : HasPrefix(SubSeq(str, i, Len(str)), sub)
\* strings.ReplaceAll, for a non-empty old
RECURSIVE ReplaceAll(_, _, _)
ReplaceAll(str, old, new) ==
    IF str = <<>> THEN <<>>
    ELSE IF HasPrefix(str, old)
      THEN new \o ReplaceAll(SubSeq(str, Len(old) + 1, Len(str)), old, new)
    ELSE <<str[1]>> \o ReplaceAll(Tail(str), old, new)
\* filepath.Ext: the suffix from the last dot of the name, "" without a dot
RECURSIVE Ext(_)
Ext(name) ==
    IF name = <<>> THEN <<>>
    ELSE IF Ext(Tail(name)) # <<>> THEN Ext(Tail(name))
    ELSE IF name[1] = "." THEN name
    ELSE <<>>
\* regexp.QuoteMeta: a backslash before every character special to regexp
RECURSIVE QuoteMeta(_)
QuoteMeta(str) ==
    IF str = <<>> THEN <<>>
    ELSE (IF str[1] \in {"\\", ".", "*", "?"} THEN <<"\\", str[1]>> ELSE <<str[1]>>)
         \o QuoteMeta(Tail(str))

(* ---------------------------- name matching ---------------------------- *)
wildcardToRegex(pattern) ==
    IF pattern = <<>> THEN <<>>
    ELSE ReplaceAll(ReplaceAll(QuoteMeta(pattern), <<"\\", "*">>, <<".", "*">>),
                    <<"\\", "?">>, <<".">>)
\* what "." matches in a Go regexp without the s flag
DotMatches(c) == c # "NL"
\* regexp.MatchString of "^" + rx + "$": an escaped character is itself,
\* ".*" any run and "." any one of the characters "." matches
RECURSIVE MatchString(_, _)
MatchString(rx, str) ==
    IF rx = <<>> THEN str = <<>>
    ELSE IF rx[1] = "\\" /\ Len(rx) >= 2
      THEN str # <<>> /\ str[1] = rx[2] /\ MatchString(SubSeq(rx, 3, Len(rx)), Tail(str))
    ELSE IF rx[1] = "." /\ Len(rx) >= 2 /\ rx[2] = "*"
      THEN \/ MatchString(SubSeq(rx, 3, Len(rx)), str)
           \/ str # <<>> /\ DotMatches(str[1]) /\ MatchString(rx, Tail(str))
    ELSE IF rx[1] = "."
      THEN str # <<>> /\ DotMatches(str[1]) /\ MatchString(Tail(rx), Tail(str))
    ELSE str # <<>> /\ str[1] = rx[1] /\ MatchString(Tail(rx), Tail(str))
\* buildNameMatcher(pattern)(name); a nil matcher matches every name
MatchName(pattern, name) ==
    LET lowered == ToLower(TrimSpace(pattern))
    IN IF lowered = <<>> THEN TRUE
       ELSE IF \E i \in 1..Len(lowered) : lowered[i] \in {"*", "?"}
         THEN MatchString(wildcardToRegex(lowered), ToLower(name))
       ELSE Contains(ToLower(name), lowered)

(* -------------------------------- Search ------------------------------- *)
\* an extension of the query left without the dot
NormalizedExtBare(ext) == ToLower(TrimSpace(ext))
\* the allow-set Search builds from query.Extensions
NormalizedExt(ext) ==
    LET normalized == ToLower(TrimSpace(ext))
    IN IF normalized = <<>> \/ HasPrefix(normalized, <<".">>) THEN normalized
       ELSE <<".">> \o normalized
AllowedExts(extensions) ==
    {NormalizedExt(extensions[i]) : i \in 1..Len(extensions)} \ {<<>>}

\* matchesQuery with a minimum the size has to exceed
matchesQueryAbove(record, query, allowedExts) ==
    /\ MatchName(query.NamePattern, record.Name)
    /\ allowedExts # {} =>
         /\ ToLower(Ext(record.Name)) # <<>>
         /\ ToLower(Ext(record.Name)) \in allowedExts
    /\ ~(query.MinSize > 0 /\ record.Size <= query.MinSize)
    /\ ~(query.MaxSize > 0 /\ record.Size > query.MaxSize)
    /\ ~(query.ModifiedAfter # 0 /\ record.ModTime < query.ModifiedAfter)
    /\ ~(query.ModifiedBefore # 0 /\ record.ModTime > query.ModifiedBefore)
\* matchesQuery; times are counted from the zero time, which is 0
matchesQuery(record, query, allowedExts) ==
    /\ MatchName(query.NamePattern, record.Name)
    /\ allowedExts # {} =>
         /\ ToLower(Ext(record.Name)) # <<>>
         /\ ToLower(Ext(record.Name)) \in allowedExts
    /\ ~(query.MinSize > 0 /\ record.Size < query.MinSize)
    /\ ~(query.MaxSize > 0 /\ record.Size > query.MaxSize)
    /\ ~(query.ModifiedAfter # 0 /\ record.ModTime < query.ModifiedAfter)
    /\ ~(query.ModifiedBefore # 0 /\ record.ModTime > query.ModifiedBefore)

Sign(a, b) == IF a < b THEN -1 ELSE IF a > b THEN 1 ELSE 0
\* the sort fields compareRecords knows
BySize == <<"s", "i", "z", "e">>
ByModified == <<"m", "o", "d", "i", "f", "i", "e", "d">>
ByTime == <<"t", "i", "m", "e">>
ByPath == <<"p", "a", "t", "h">>
compareRecords(a, b, field) ==
    LET lowered == ToLower(field)
    IN CASE lowered = BySize -> Sign(a.Size, b.Size)
         [] lowered \in {ByModified, ByTime} -> Sign(a.ModTime, b.ModTime)
         [] lowered = ByPath -> Compare(ToLower(a.Path), ToLower(b.Path))
         [] OTHER -> Compare(ToLower(a.Name), ToLower(b.Name))
\* the comparator without its last tiebreak
LessUpToName(a, b, query) ==
    LET byField == compareRecords(a, b, query.SortField)
        byName == Compare(ToLower(a.Name), ToLower(b.Name))
        cmp == IF byField # 0 THEN byField ELSE byName
    IN IF query.SortDescending THEN cmp > 0 ELSE cmp < 0
\* a comparator whose direction reaches the path tiebreak as well
LessAllReversed(a, b, query) ==
    LET byField == compareRecords(a, b, query.SortField)
        byName == Compare(ToLower(a.Name), ToLower(b.Name))
        cmp == IF byField # 0 THEN byField
               ELSE IF byName # 0 THEN byName ELSE Compare(a.Path, b.Path)
    IN IF query.SortDescending THEN cmp > 0 ELSE cmp < 0
\* the less function Search hands to sort.Slice
Less(a, b, query) ==
    LET byField == compareRecords(a, b, query.SortField)
        byName == Compare(ToLower(a.Name), ToLower(b.Name))
        cmp == IF byField # 0 THEN byField ELSE byName
    IN IF cmp = 0 THEN a.Path # b.Path /\ Compare(a.Path, b.Path) < 0
       ELSE IF query.SortDescending THEN cmp > 0
       ELSE cmp < 0
\* the orders sort.Slice may leave the matches in: none of them has a later
\* element less than an earlier one
Orders(matches, query) ==
    LET n == Cardinality(matches)
        perms == {f \in [1..n -> matches] : \A i, j \in 1..n : i # j => f[i] # f[j]}
        sorted == {f \in perms : \A i, j \in 1..n : i < j => ~Less(f[j], f[i], query)}
    IN IF sorted = {} THEN perms ELSE sorted

\* int arithmetic of the build, in two's complement
MaxInt == 2 ^ (IntBits - 1) - 1
MinInt == 0 - 2 ^ (IntBits - 1)
Ints == MinInt..MaxInt
Wrap(x) == ((x - MinInt) % (2 ^ IntBits)) + MinInt

\* the page Search cuts out of the sorted matches; a slice expression whose
\* bounds are out of range panics
Page(matches, queryOffset, queryLimit) ==
    LET total == Len(matches)
        offset == IF queryOffset < 0 THEN 0 ELSE IF queryOffset > total THEN total ELSE queryOffset
        limit == IF queryLimit <= 0 \/ Wrap(offset + queryLimit) > total
                   THEN total - offset ELSE queryLimit
        high == Wrap(offset + limit)
    IN IF offset = 0 /\ limit = total
         THEN [fn |-> "Search", panic |-> FALSE, Files |-> matches, Total |-> total]
       ELSE IF offset <= high /\ high <= total
         THEN [fn |-> "Search", panic |-> FALSE,
               Files |-> SubSeq(matches, offset + 1, high), Total |-> total]
       ELSE [fn |-> "Search", panic |-> TRUE, Files |-> <<>>, Total |-> total]

\* a loop that looks at the context after it has appended the record
CollectedBeforeFilter(index, query, cancelled) ==
    LET matching == {r \in index : matchesQuery(r, query, AllowedExts(query.Extensions))}
    IN IF cancelled THEN {matches \in SUBSET index : Cardinality(matches \ matching) <= 1}
       ELSE {matching}
\* the records the filter loop of Search collects: all that match, or those
\* it had reached when the context was cancelled
Collected(index, query, cancelled) ==
    LET matching == {r \in index : matchesQuery(r, query, AllowedExts(query.Extensions))}
    IN IF cancelled THEN SUBSET matching ELSE {matching}

\* Search(ctx, query) over the index
Search ==
    /\ arg.fn = "Search"
    /\ \E matches \in Collected(arg.index, arg.query, arg.cancelled) :
         \E order \in Orders(matches, arg.query) :
           res' = Page(order, arg.query.Offset, arg.query.Limit)
    /\ UNCHANGED <<indexer, mu, statusMu, scanMu, at, reply, arg>>

Searching == Search

\* the zero Query
ZeroQuery ==
    [NamePattern |-> <<>>, Extensions |-> <<>>, MinSize |-> 0, MaxSize |-> 0,
     ModifiedAfter |-> 0, ModifiedBefore |-> 0, SortField |-> <<>>,
     SortDescending |-> FALSE, Offset |-> 0, Limit |-> 0]
SearchCall(index, query, cancelled) ==
    [fn |-> "Search", index |-> index, query |-> query, cancelled |-> cancelled]
Searched == arg.fn = "Search" /\ res.fn = "Search"

(* ------------------------------ pagination ----------------------------- *)
\* an index of up to MaxMatches files, every one of which matches
PagedFile(i) ==
    [Path |-> <<"/", "a">> \o [k \in 1..i |-> "b"], Name |-> <<"a">> \o [k \in 1..i |-> "b"],
     Size |-> i, ModTime |-> 1]
InitPaging ==
    /\ InitIndexer /\ InitLocks
    /\ res = NoCall
    /\ \E n \in 0..MaxMatches, offset \in Ints, limit \in Ints :
         arg = SearchCall({PagedFile(i) : i \in 1..n},
                          [ZeroQuery EXCEPT !.Offset = offset, !.Limit = limit], FALSE)
SpecPaging == InitPaging /\ [][Searching]_vars

Min(a, b) == IF a < b THEN a ELSE b
Clamped(offset, total) == IF offset < 0 THEN 0 ELSE IF offset > total THEN total ELSE offset
\* C14: for every integer offset and limit, Search returns without failing;
\* total is the number of matches before pagination, the page is the
\* elements [offset', offset' + length) of the sorted matches, where offset'
\* is the offset clamped into [0, total], limit' is the remaining count when
\* limit <= 0 and the limit otherwise, and length = min(limit', total - offset')
PageWithinBounds ==
    Searched =>
      LET sorted == CHOOSE order \in Orders(arg.index, arg.query) : TRUE
          total == Cardinality(arg.index)
          offset == Clamped(arg.query.Offset, total)
          limit == IF arg.query.Limit <= 0 THEN total - offset ELSE arg.query.Limit
          length == Min(limit, total - offset)
      IN /\ ~res.panic
         /\ res.Total = total /\ res.Total >= 0
         /\ Len(res.Files) <= res.Total
         /\ Len(res.Files) = length
         /\ res.Files = SubSeq(sorted, offset + 1, offset + length)
\* the same away from the overflow of offset + limit
Overflows ==
    arg.query.Limit > 0
      /\ Clamped(arg.query.Offset, Cardinality(arg.index)) + arg.query.Limit > MaxInt
PageWithinBoundsUnlessOverflow == ~Overflows => PageWithinBounds
PagePanics == Searched /\ res.panic => Overflows

(* ------------------------------- ordering ------------------------------ *)
\* files in two directories whose names and paths differ in case only, or
\* not at all in name, with sizes and modification times that tie
SortedPaths == {<<"/", dir, "/", name>> : dir \in {"a", "B"}, name \in {"m", "M", "b"}}
\* the indexes of at most n files: one record for a path
SortedIndexes(n) ==
    UNION {{{[Path |-> p, Name |-> <<p[4]>>, Size |-> size[p], ModTime |-> t[p]] : p \in paths} :
              size \in [paths -> 1..2], t \in [paths -> 1..2]} :
             paths \in {ps \in SUBSET SortedPaths : Cardinality(ps) <= n}}
SortFields == {BySize, ByModified, <<"T", "i", "M", "e">>, ByPath, <<>>}
InitSorting ==
    /\ InitIndexer /\ InitLocks
    /\ res = NoCall
    /\ \E index \in SortedIndexes(MaxMatches), field \in SortFields, desc \in BOOLEAN :
         arg = SearchCall(index, [ZeroQuery EXCEPT !.SortField = field,
                                                   !.SortDescending = desc], FALSE)
SpecSorting == InitSorting /\ [][Searching]_vars

StrictTotal(records, query) ==
    /\ \A a \in records : ~Less(a, a, query)
    /\ \A a, b \in records : a # b => (Less(a, b, query) # Less(b, a, query))
    /\ \A a, b, c \in records : Less(a, b, query) /\ Less(b, c, query) => Less(a, c, query)
\* C15: for every sort field and both directions the ordering is a strict
\* total order on records with distinct paths (of two distinct records
\* exactly one precedes the other, and the relation is transitive), so the
\* sort has one possible outcome and two uncancelled searches with the same
\* query on an unchanged index return identical file sequences
SearchOrderIsTotal ==
    /\ [](arg.fn = "Search" =>
            /\ StrictTotal(arg.index, arg.query)
            /\ Cardinality(Orders(arg.index, arg.query)) = 1
            /\ Searched =>
                 \A i, j \in 1..Len(res.Files) :
                   i < j => Less(res.Files[i], res.Files[j], arg.query))
    /\ [][Searched /\ res'.fn = "Search" /\ arg' = arg => res' = res]_vars
\* three files tied on size and name, returned in descending order
SearchOrderIsTotalWitness ==
    /\ Searched
    /\ arg.query.SortField = BySize /\ arg.query.SortDescending
    /\ Len(res.Files) = MaxMatches
    /\ \A i, j \in 1..Len(res.Files) :
         /\ res.Files[i].Size = res.Files[j].Size
         /\ ToLower(res.Files[i].Name) = ToLower(res.Files[j].Name)

(* ------------------------------- filters ------------------------------- *)
\* one file of any size and time, alone or beside a second file
FilteredIndexes ==
    {{[Path |-> <<"/", "a", ".", "t">>, Name |-> <<"a", ".", "t">>, Size |-> size, ModTime |-> t]}
       \cup other :
     size \in 0..2, t \in 1..2,
     other \in {{}, {[Path |-> <<"/", "b">>, Name |-> <<"b">>, Size |-> 1, ModTime |-> 1]}}}
InitFiltering ==
    /\ InitIndexer /\ InitLocks
    /\ res = NoCall
    /\ \E index \in FilteredIndexes, pattern \in {<<>>, <<"A">>}, exts \in {<<>>, << <<"t">> >>},
          min \in -1..2, max \in -1..2, after \in 0..2, before \in 0..2 :
         arg = SearchCall(index, [ZeroQuery EXCEPT !.NamePattern = pattern, !.Extensions = exts,
                                                   !.MinSize = min, !.MaxSize = max,
                                                   !.ModifiedAfter = after,
                                                   !.ModifiedBefore = before], FALSE)
SpecFiltering == InitFiltering /\ [][Searching]_vars

Range(seq) == {seq[i] : i \in 1..Len(seq)}
\* C16: an uncancelled search matches exactly the index records that satisfy
\* the name matcher, the extension allow-set when it is not empty,
\* size >= minSize when minSize > 0, size <= maxSize when maxSize > 0,
\* modTime not before modifiedAfter and not after modifiedBefore when these
\* are not the zero time
SearchMatchesFilters ==
    Searched /\ ~arg.cancelled =>
      LET q == arg.query
          exts == AllowedExts(q.Extensions)
          wanted == {r \in arg.index :
                       /\ MatchName(q.NamePattern, r.Name)
                       /\ exts # {} => ToLower(Ext(r.Name)) \in exts
                       /\ q.MinSize > 0 => r.Size >= q.MinSize
                       /\ q.MaxSize > 0 => r.Size <= q.MaxSize
                       /\ q.ModifiedAfter # 0 => r.ModTime >= q.ModifiedAfter
                       /\ q.ModifiedBefore # 0 => r.ModTime <= q.ModifiedBefore}
      IN /\ ~res.panic
         /\ Range(res.Files) = wanted
         /\ res.Total = Cardinality(wanted)
\* all four bounds set, a file on the minimum size kept and another dropped
SearchMatchesFiltersWitness ==
    /\ Searched
    /\ arg.query.MinSize > 0 /\ arg.query.MaxSize > 0
    /\ arg.query.ModifiedAfter # 0 /\ arg.query.ModifiedBefore # 0
    /\ Cardinality(arg.index) = 2 /\ Len(res.Files) = 1
    /\ res.Files[1].Size = arg.query.MinSize

(* ---------------------------- name patterns ---------------------------- *)
Strings(alphabet, lengths) == UNION {[1..n -> alphabet] : n \in lengths}
Patterns == Strings({"a", "A", "*", "?", ".", " ", "\\", "NL"}, 0..MaxPattern)
\* a file name is not empty and holds any character but the separator
Names == Strings({"a", "A", "b", ".", "*", "\\", "NL"}, 1..MaxName)
InitNaming ==
    /\ InitIndexer /\ InitLocks
    /\ res = NoCall
    /\ \E pattern \in Patterns, name \in Names :
         arg = SearchCall({[Path |-> <<"/">> \o name, Name |-> name, Size |-> 1, ModTime |-> 1]},
                          [ZeroQuery EXCEPT !.NamePattern = pattern], FALSE)
SpecNaming == InitNaming /\ [][Searching]_vars

\* a wildcard pattern over a whole string: * is any run of characters,
\* ? is exactly one character, every other character is itself
RECURSIVE Wildcard(_, _)
Wildcard(pattern, str) ==
    IF pattern = <<>> THEN str = <<>>
    ELSE IF pattern[1] = "*"
      THEN Wildcard(Tail(pattern), str) \/ (str # <<>> /\ Wildcard(pattern, Tail(str)))
    ELSE str # <<>>
           /\ (pattern[1] = "?" \/ pattern[1] = str[1])
           /\ Wildcard(Tail(pattern), Tail(str))
\* C17: an empty or all-blank pattern matches every name; a pattern
\* with * or ? matches a name if and only if the whole lower-cased name
\* matches it, * standing for any run of characters and ? for exactly one;
\* any other pattern matches if and only if it occurs in the name, case
\* ignored.  The pattern is taken trimmed and in lower case, as the matcher
\* takes it.
NameMatching ==
    Searched =>
      LET pattern == ToLower(TrimSpace(arg.query.NamePattern))
          file == CHOOSE r \in arg.index : TRUE
          name == ToLower(file.Name)
          matched == res.Files = <<file>>
      IN /\ ~res.panic
         /\ res.Files \in {<<>>, <<file>>}
         /\ IF pattern = <<>> THEN matched
            ELSE IF "*" \in Range(pattern) \/ "?" \in Range(pattern)
              THEN matched <=> Wildcard(pattern, name)
            ELSE matched <=> \E i \in 0..Len(name), j \in 0..Len(name) :
                               SubSeq(name, i + 1, j) = pattern
\* the same for names without a newline
NameMatchingOnOneLine ==
    (arg.fn = "Search" /\ \A r \in arg.index : "NL" \notin Range(r.Name)) => NameMatching

(* ------------------------------ extensions ----------------------------- *)
\* names with an extension in either case, without one, with an empty one
\* and with nothing before the dot
TypedNames == {<<"a", ".", "t">>, <<"b", ".", "T">>, <<"m">>, <<"a", ".">>, <<".", "t">>}
TypedIndexes(n) ==
    UNION {{{[Path |-> <<"/">> \o name, Name |-> name, Size |-> size[name], ModTime |-> 1] :
               name \in names} : size \in [names -> 1..2]} :
             names \in {ns \in SUBSET TypedNames : Cardinality(ns) <= n}}
\* extension lists as a caller may type them
TypedExts ==
    Strings({<<>>, <<" ">>, <<"t">>, <<".", "T">>, <<" ", "T", " ">>, <<"m">>}, 0..2)
\* the whole result, or the first file by descending size
Largest == [ZeroQuery EXCEPT !.SortField = BySize, !.SortDescending = TRUE, !.Limit = 1]
InitTyping ==
    /\ InitIndexer /\ InitLocks
    /\ res = NoCall
    /\ \E index \in TypedIndexes(MaxMatches), exts \in TypedExts, query \in {ZeroQuery, Largest} :
         arg = SearchCall(index, [query EXCEPT !.Extensions = exts], FALSE)
SpecTyping == InitTyping /\ [][Searching]_vars

Dotted(ext) == IF HasPrefix(ext, <<".">>) THEN ext ELSE <<".">> \o ext
\* the result of a Search that filters by the allow-set
FilteredBy(allow) ==
    LET wanted == {r \in arg.index : allow # {} => ToLower(Ext(r.Name)) \in allow}
    IN /\ ~res.panic
       /\ res.Total = Cardinality(wanted)
       /\ \A r \in wanted : allow # {} => Ext(r.Name) # <<>>
       /\ IF arg.query.Limit = 0 THEN Range(res.Files) = wanted
          ELSE IF wanted = {} THEN res.Files = <<>>
          ELSE /\ Len(res.Files) = 1
               /\ res.Files[1] \in wanted
               /\ \A r \in wanted : r.Size <= res.Files[1].Size
\* C18: the allow-set is the query's extensions lower-cased, trimmed and
\* prefixed with a dot when missing; an empty set filters nothing, otherwise
\* a record passes only if the lower-cased extension of its name is in the
\* set (a name without extension never passes); with sortField = size,
\* descending, limit = 1 the search returns the single largest matching file
ExtensionsFilter ==
    Searched =>
      FilteredBy({Dotted(ToLower(TrimSpace(ext))) : ext \in Range(arg.query.Extensions)})
\* C18, amended: as above, with the entries that are blank left out of the
\* allow-set
ExtensionsFilterSkippingBlank ==
    Searched =>
      FilteredBy({Dotted(ext) :
                    ext \in {ToLower(TrimSpace(e)) : e \in Range(arg.query.Extensions)} \ {<<>>}})
\* a blank entry and one in capitals without a dot; the larger of two
\* matching files is returned and a file without extension is not
ExtensionsFilterWitness ==
    /\ Searched
    /\ arg.query.Extensions = << <<" ">>, <<" ", "T", " ">> >>
    /\ arg.query.Limit = 1
    /\ res.Total = 2 /\ Cardinality(arg.index) = 3
    /\ Len(res.Files) = 1 /\ res.Files[1].Size = 2
    /\ \E r \in arg.index : r.Size = 1 /\ Ext(r.Name) # <<>>
    /\ \E r \in arg.index : r.Size = 2 /\ Ext(r.Name) = <<>>

(* ------------------------------ UpdateFile ----------------------------- *)
\* the elements of a path between its separators
RECURSIVE Segments(_)
Segments(path) ==
    IF path = <<>> THEN << <<>> >>
    ELSE LET rest == Segments(Tail(path))
         IN IF path[1] = "/" THEN << <<>> >> \o rest
            ELSE << <<path[1]>> \o rest[1] >> \o Tail(rest)
RECURSIVE Join(_)
Join(segs) ==
    IF segs = <<>> THEN <<>>
    ELSE IF Len(segs) = 1 THEN segs[1]
    ELSE segs[1] \o <<"/">> \o Join(Tail(segs))
\* the elements filepath.Clean keeps: none that is empty or ".", and ".."
\* takes the element before it away, or goes away itself at the root
RECURSIVE Resolve(_, _, _)
Resolve(segs, out, rooted) ==
    IF segs = <<>> THEN out
    ELSE IF segs[1] \in {<<>>, <<".">>} THEN Resolve(Tail(segs), out, rooted)
    ELSE IF segs[1] = <<".", ".">>
      THEN IF out # <<>> /\ out[Len(out)] # <<".", ".">>
             THEN Resolve(Tail(segs), SubSeq(out, 1, Len(out) - 1), rooted)
           ELSE IF rooted THEN Resolve(Tail(segs), out, rooted)
           ELSE Resolve(Tail(segs), Append(out, segs[1]), rooted)
    ELSE Resolve(Tail(segs), Append(out, segs[1]), rooted)
\* filepath.Clean
Clean(path) ==
    LET rooted == HasPrefix(path, <<"/">>)
        kept == Join(Resolve(Segments(path), <<>>, rooted))
    IN IF rooted THEN <<"/">> \o kept
       ELSE IF kept = <<>> THEN <<".">>
       ELSE kept

\* m[key] = value on a Go map, and the row an upsert leaves in file_records
Put(m, key, value) == [k \in DOMAIN m \cup {key} |-> IF k = key THEN value ELSE m[k]]
\* saveRecord with the path as it was given
saveRecordAsGiven(index, rows, record) ==
    LET row == [Path |-> record.Path, Name |-> record.Name, Size |-> record.Size,
                ModTime |-> record.ModTime, RootPath |-> record.RootPath]
    IN {[files |-> Put(index, record.Path, record), store |-> Put(rows, record.Path, row)],
        [files |-> Put(index, record.Path, record), store |-> rows]}
\* saveRecord: the index and the store it may leave; the upsert may fail,
\* and UpdateFile drops the error
saveRecord(index, rows, record) ==
    LET normalized == Clean(record.Path)
        saved == [record EXCEPT !.Path = normalized]
        row == [Path |-> saved.Path, Name |-> saved.Name, Size |-> saved.Size,
                ModTime |-> saved.ModTime, RootPath |-> saved.RootPath]
    IN {[files |-> Put(index, normalized, saved), store |-> Put(rows, normalized, row)],
        [files |-> Put(index, normalized, saved), store |-> rows]}

\* UpdateFile(record), called up to MaxCalls times with the same record
UpdateFile ==
    /\ arg.fn = "UpdateFile"
    /\ LET calls == IF res = NoCall THEN 0 ELSE res.calls
           now == IF res = NoCall THEN [files |-> arg.files, store |-> arg.store]
                  ELSE [files |-> res.files, store |-> res.store]
       IN /\ calls < MaxCalls
          /\ \E next \in saveRecord(now.files, now.store, arg.record) :
               res' = [fn |-> "UpdateFile", calls |-> calls + 1,
                       files |-> next.files, store |-> next.store,
                       once |-> IF calls = 0 THEN next ELSE res.once]
    /\ UNCHANGED <<indexer, mu, statusMu, scanMu, at, reply, arg>>
Upserting == UpdateFile

\* rooted paths as a watcher may spell them
RawPaths == {p \in Strings({"/", ".", "a", "b"}, 1..MaxPath) : p[1] = "/"}
OldRecord(p) ==
    [Path |-> p, Name |-> <<"o">>, Size |-> 1, ModTime |-> 1, RootPath |-> <<"/">>]
\* the index and the store hold the same records, under clean paths
InitUpserting ==
    /\ InitIndexer /\ InitLocks
    /\ res = NoCall
    /\ \E known \in SUBSET {<<"/", "a">>, <<"/", "b">>}, path \in RawPaths,
          size \in 1..2, t \in 1..2 :
         arg = [fn |-> "UpdateFile",
                files |-> [p \in known |-> OldRecord(p)],
                store |-> [p \in known |-> OldRecord(p)],
                record |-> [Path |-> path, Name |-> <<"n">>, Size |-> size,
                            ModTime |-> t, RootPath |-> <<"/", "a">>]]
SpecUpserting == InitUpserting /\ [][Upserting]_vars

\* C19: UpdateFile with the same record twice leaves the index and the
\* store in a state that one call leaves them in, the index in the very
\* state the first call left, with exactly one entry for the normalized
\* path; that entry is the record given, every field of an older entry
\* replaced; no other entry changes and the count grows by at most one
UpsertIdempotent ==
    (arg.fn = "UpdateFile" /\ res.fn = "UpdateFile") =>
      LET p == Clean(arg.record.Path)
          growth == Cardinality(DOMAIN res.files) - Cardinality(DOMAIN arg.files)
      IN /\ res.files = res.once.files
         /\ [files |-> res.files, store |-> res.store]
              \in saveRecord(arg.files, arg.store, arg.record)
         /\ p \in DOMAIN res.files
         /\ res.store \in {arg.store, res.once.store, Put(arg.store, p, res.files[p])}
         /\ Cardinality({k \in DOMAIN res.files : Clean(k) = p}) = 1
         /\ res.files[p] = [arg.record EXCEPT !.Path = p]
         /\ \A k \in DOMAIN arg.files \ {p} : k \in DOMAIN res.files /\ res.files[k] = arg.files[k]
         /\ growth \in {0, 1}
         /\ growth = 0 <=> p \in DOMAIN arg.files
\* the second call for a path given unclean, which the index held with other
\* fields; its upsert reached the store after the first one's failed
UpsertIdempotentWitness ==
    /\ arg.fn = "UpdateFile" /\ res.fn = "UpdateFile"
    /\ res.calls = MaxCalls
    /\ Clean(arg.record.Path) # arg.record.Path
    /\ Clean(arg.record.Path) \in DOMAIN arg.files
    /\ arg.files[Clean(arg.record.Path)].Size # arg.record.Size
    /\ res.once.store = arg.store /\ res.store # arg.store

(* ---------------------- LoadFromStore, step by step -------------------- *)
\* The call at any time, beside a scan: LoadAll,
\* then the index replaced under mu, then the ScanState of every root read and
\* the status updated under statusMu.  Its locals are in res.
LoadErr(cause) == <<"query records", cause>>
\* the map LoadFromStore builds from the rows: the paths of the rows are
\* clean, as saveRecord wrote them, so Clean leaves them as they are
Loaded(rows) == [p \in AllPaths |-> rows[p]]
\* len(records)
LoadedCount(rows) == Cardinality({p \in AllPaths : rows[p] # NoRecord})
\* the latest of the timestamps, the zero time if there is none
Latest(stamps) == CHOOSE t \in stamps \cup {0} : \A u \in stamps \cup {0} : u <= t
\* the latest timestamp of the first root only
LastRunOfFirst(states, readable) ==
    Latest({states[scanRoots[1]].LastFullScan, states[scanRoots[1]].LastIncrementalScan})
\* lastRun: the latest LastFullScan / LastIncrementalScan of the roots whose
\* ScanState could be read
LastRun(states, readable) ==
    Latest({states[r].LastFullScan : r \in readable}
             \cup {states[r].LastIncrementalScan : r \in readable})
\* a failed load that returns no error
LoadFailedSilently == [count |-> 0, err |-> NoErr]
\* "return 0, err"
LoadFailed == [count |-> 0, err |-> LoadErr(IoCause)]
Loads == IF res = NoCall THEN 0 ELSE res.calls
LoadAt == IF res = NoCall THEN "returned" ELSE res.pc

\* store.LoadAll: it fails and LoadFromStore returns (0, err), or the rows are read
LoadRead ==
    /\ LoadAt = "returned"
    /\ Loads < MaxLoads
    /\ \E ok \in BOOLEAN :
         res' = [fn |-> "LoadFromStore", calls |-> Loads + 1,
                 pc |-> IF ok THEN "read" ELSE "returned",
                 rows |-> IF ok THEN store ELSE EmptyStore,
                 count |-> IF ok THEN 0 ELSE LoadFailed.count,
                 err |-> IF ok THEN NoErr ELSE LoadFailed.err,
                 \* history, read by the properties only
                 readable |-> {}, old |-> EmptyIndex]
    /\ UNCHANGED <<indexer, mu, statusMu, scanMu, at, reply, arg>>

\* idx.files = data, under mu
LoadReplace ==
    /\ LoadAt = "read"
    /\ files' = Loaded(res.rows)
    /\ quiet' = Disturbed
    /\ res' = [res EXCEPT !.pc = "replaced", !.old = files]
    /\ UNCHANGED <<disk, missing, store, scanState, status, scanCancel, ctxDone, starting,
                   task, upd, ret, hydrated, nscans, nev, nfault>>
    /\ UNCHANGED <<mu, statusMu, scanMu, at, reply, arg>>

\* the ScanState reads (a failed read is skipped), the updateStatus and the return
LoadPublish ==
    /\ LoadAt = "replaced"
    /\ \E readable \in SUBSET Roots :
         /\ nfault + Cardinality(Roots \ readable) <= MaxFaults
         /\ nfault' = nfault + Cardinality(Roots \ readable)
         /\ status' = [status EXCEPT !.LastSuccessfulRun = LastRun(scanState, readable),
                                     !.Mode = ScanModeIncremental,
                                     !.Processed = 0,
                                     !.Error = NoErr]
         /\ res' = [res EXCEPT !.pc = "returned", !.count = LoadedCount(res.rows),
                               !.readable = readable]
    /\ hydrated' = TRUE
    /\ UNCHANGED <<disk, missing, files, store, scanState, scanCancel, ctxDone, starting,
                   task, upd, ret, quiet, nscans, nev>>
    /\ UNCHANGED <<mu, statusMu, scanMu, at, reply, arg>>

\* LoadFromStore beside the scan controller
Loading ==
    \/ LoadRead
    \/ LoadReplace
    \/ LoadPublish
    \/ StartScanReject
    \/ \E mode \in Modes : StartScanAccept(mode, MaxScans)
    \/ StartScanLaunch
    \/ StopScan
    \/ \E id \in ScanIds : ScanStep(id)
SpecLoad == Init /\ [][Loading]_vars

\* the steps of a LoadFromStore call
LoadFails == LoadAt = "returned" /\ LoadAt' = "returned" /\ res' # res
LoadReplaces == LoadAt = "read" /\ LoadAt' = "replaced"
LoadReturns == LoadAt = "replaced" /\ LoadAt' = "returned"
\* what a successful load does to the index, and what it returns and
\* publishes apart from lastSuccessfulRun
LoadReplacesIndex ==
    /\ LoadReplaces =>
         /\ \A p \in AllPaths : files'[p] = res.rows[p]
         /\ status' = status
    /\ LoadReturns =>
         /\ files' = files
         /\ res'.err = NoErr
         /\ res'.count = Cardinality({p \in AllPaths : res.rows[p] # NoRecord})
         /\ status'.Processed = 0
         /\ status'.Mode = ScanModeIncremental
AllStamps ==
    {scanState[r].LastFullScan : r \in Roots} \cup {scanState[r].LastIncrementalScan : r \in Roots}
\* C21: a successful LoadFromStore replaces the whole index in one step with
\* exactly the records read from the store (no entry from before survives),
\* returns the number of records read, sets lastSuccessfulRun to the latest
\* of all LastFullScan / LastIncrementalScan values over the configured
\* roots, and sets processed to 0 and mode to incremental
LoadPublishesLatestOfAll ==
    [][/\ LoadReplacesIndex
       /\ LoadReturns => \A t \in AllStamps \cup {0} : t <= status'.LastSuccessfulRun
                         /\ status'.LastSuccessfulRun \in AllStamps \cup {0}]_vars
\* C21, amended: as above, with lastSuccessfulRun the latest of the values
\* of the roots whose ScanState could be read (the zero time if none could)
LoadPublishesLatestRead ==
    [][/\ LoadReplacesIndex
       /\ LoadReturns =>
            LET stamps == {scanState[r].LastFullScan : r \in res'.readable}
                            \cup {scanState[r].LastIncrementalScan : r \in res'.readable}
                            \cup {0}
            IN /\ status'.LastSuccessfulRun \in stamps
               /\ \A t \in stamps : t <= status'.LastSuccessfulRun]_vars
\* a load beside a scan: the index held a record that was not among the rows
\* read, and the ScanState of /B, the later one, could not be read
LoadPublishesLatestReadWitness ==
    /\ LoadAt = "returned" /\ res # NoCall /\ res.err = NoErr
    /\ res.count > 0
    /\ \E p \in AllPaths : res.old[p] # NoRecord /\ res.rows[p] = NoRecord
    /\ res.readable = {"/A"}
    /\ status.LastSuccessfulRun = scanState["/A"].LastIncrementalScan
    /\ scanState["/B"].LastIncrementalScan > status.LastSuccessfulRun

\* C22: when LoadAll fails, LoadFromStore returns that error with count 0
\* and leaves the index and the whole status unchanged
LoadFailureChangesNothing ==
    [][LoadFails =>
         /\ res'.err = LoadErr(IoCause) /\ res'.count = 0
         /\ files' = files /\ status' = status]_vars
\* a failed load of an indexer whose index and status a scan has filled
LoadFailureChangesNothingWitness ==
    /\ LoadAt = "returned" /\ res # NoCall /\ res.err # NoErr
    /\ countFiles > 0
    /\ status.Running /\ status.Processed > 0

(* ------------------------------ ScanState ------------------------------ *)
\* the scan goroutine id writes the ScanState of the root it has walked
WritesState(id, r) ==
    /\ task[id].pc = "walk" /\ task[id].pending = <<>>
    /\ scanRoots[task[id].ri] = r
    /\ scanState'[r] # scanState[r]
\* what the claim says of the ScanState written, given the value to keep
StateWrittenKeeping(id, r, kept) ==
    LET timestamp == Now(id, task[id].ri)
    IN IF task[id].mode = ScanModeFull
         THEN /\ scanState'[r].LastFullScan = timestamp
              /\ scanState'[r].LastIncrementalScan = timestamp
         ELSE /\ scanState'[r].LastIncrementalScan = timestamp
              /\ scanState'[r].LastFullScan = kept
\* C23: the ScanState written for a root whose walk completed has, in full
\* mode, both timestamps set to the same new timestamp, and in incremental
\* mode only LastIncrementalScan set to it, LastFullScan keeping the value
\* that was stored before the scan, also when the read of the ScanState at
\* the start of the scan failed
ScanStateKeepsFullScan ==
    [][\A id \in ScanIds, r \in Roots :
         WritesState(id, r) => StateWrittenKeeping(id, r, scanState[r].LastFullScan)]_vars
\* the same with the value the scan read at its start, the zero time after a
\* failed read
ScanStateKeepsWhatWasRead ==
    [][\A id \in ScanIds, r \in Roots :
         WritesState(id, r) =>
           StateWrittenKeeping(id, r, task[id].rootStates[r].LastFullScan)]_vars

(* --------------------------- unreadable entries ------------------------ *)
\* walkRoot on a root directory that exists and cannot be read: the walker is
\* called for the root, and again with the error of ReadDir, which it drops
WalkEnterDenied(id) ==
    /\ task[id].pc = "walkEnter"
    /\ nev < MaxEvents
    /\ scanRoots[task[id].ri] \notin missing
    /\ LET t == [task[id] EXCEPT !.walked = @ \cup {scanRoots[task[id].ri]}]
       IN task' = [task EXCEPT ![id] =
            IF id \in ctxDone THEN AfterWalkError(t, ErrCanceled)
            ELSE [t EXCEPT !.pc = "walk", !.pending = <<>>, !.skipped = @ \cup {scanRoots[t.ri]}]]
    /\ nev' = nev + 1
    /\ UNCHANGED <<disk, missing, files, store, scanState, status, scanCancel, ctxDone,
                   starting, upd, ret, hydrated, quiet, nscans, nfault>>
    /\ UNCHANGED aside

\* the walker on a file whose entry.Info() fails while the file is there
WalkDenied(id) ==
    /\ task[id].pc = "walk"
    /\ task[id].pending # <<>>
    /\ nev < MaxEvents
    /\ id \notin ctxDone
    /\ disk[Head(task[id].pending)] # NoFile
    /\ task' = [task EXCEPT ![id] = AfterEntryError(task[id], Head(task[id].pending))]
    /\ nev' = nev + 1
    /\ UNCHANGED <<disk, missing, files, store, scanState, status, scanCancel, ctxDone,
                   starting, upd, ret, hydrated, quiet, nscans, nfault>>
    /\ UNCHANGED aside

\* removeMissing: os.Stat on a candidate fails with an error that is not
\* fs.ErrNotExist: the candidate is kept
RemoveStatDenied(id) ==
    /\ task[id].pc = "remove"
    /\ nev < MaxEvents
    /\ \E p \in task[id].candidates :
         task' = [task EXCEPT ![id] = AfterCandidate(task[id], task[id].candidates \ {p})]
    /\ nev' = nev + 1
    /\ UNCHANGED <<disk, missing, files, store, scanState, status, scanCancel, ctxDone,
                   starting, upd, ret, hydrated, quiet, nscans, nfault>>
    /\ UNCHANGED aside

\* the scan controller over a filesystem that changes and has entries that
\* cannot be read
Hindrance ==
    \E id \in ScanIds : WalkEnterDenied(id) \/ WalkDenied(id) \/ RemoveStatDenied(id)
Hindered == Control(MaxScans) \/ Disturbance \/ Hindrance
SpecHindered == Init /\ [][Hindered]_vars

\* the walker of scan id is called with an error, or its metadata read fails
EntrySkipped(id) == \E p \in task'[id].skipped : p \notin task[id].skipped
\* the skip leaves the walk where it was but for the entry, records no error
\* and touches neither the index nor the store nor the status
SkipIsSilent ==
    [][\A id \in ScanIds :
         EntrySkipped(id) =>
           /\ task'[id].pc = "walk"
           /\ task[id].pc = "walk" => task'[id].pending = Tail(task[id].pending)
           /\ task'[id].firstErr = task[id].firstErr /\ task'[id].nerr = task[id].nerr
           /\ task'[id].ri = task[id].ri
           /\ files' = files /\ store' = store /\ status' = status]_vars
\* without a store error and a cancellation every root is walked to its end,
\* whatever was skipped
SkipsKeepWalking ==
    \A id \in ScanIds :
        (task[id].pc = "finalize" /\ task[id].nerr = 0) =>
            /\ task[id].walked = Roots /\ task[id].scannedRoots = Roots
            /\ task[id].firstErr = NoErr
FullName == <<"f", "u", "l", "l">>
IncrementalName == <<"i", "n", "c", "r", "e", "m", "e", "n", "t", "a", "l">>
ErrUnknownMode == "unknown scan mode"
\* a parser that falls back to the incremental mode for what it does not know
ParseScanModeLenient(mode) ==
    IF ToLower(mode) = FullName THEN [mode |-> ScanModeFull, err |-> ""]
    ELSE [mode |-> ScanModeIncremental, err |-> ""]
\* ParseScanMode
ParseScanMode(mode) ==
    IF mode = <<>> THEN [mode |-> ScanModeIncremental, err |-> ""]
    ELSE IF ToLower(mode) = FullName THEN [mode |-> ScanModeFull, err |-> ""]
    ELSE IF ToLower(mode) = IncrementalName THEN [mode |-> ScanModeIncremental, err |-> ""]
    ELSE [mode |-> "", err |-> ErrUnknownMode]

\* the modes a client may send: none, the two names in several cases, and
\* strings that are no mode
ModeInputs ==
    {<<>>, FullName, <<"F", "U", "L", "L">>, <<"f", "U", "l", "L">>,
     IncrementalName, <<"I", "N", "C", "R", "E", "M", "E", "N", "T", "A", "L">>,
     <<"I", "n", "c", "r", "e", "m", "e", "n", "t", "a", "l">>,
     <<"f", "u", "l">>, <<"f", "u", "l", "l", " ">>, <<"f", "u", "l", "l", "l">>,
     <<"a", "l", "l">>, <<"i", "n", "c", "r", "e", "m", "e", "n", "t">>}

\* a POST /api/scan arrives: its payload is decoded
ScanRequest ==
    /\ \E mode \in ModeInputs : arg' = [fn |-> "handleScan", mode |-> mode]
    /\ UNCHANGED <<indexer, mu, statusMu, scanMu, at, reply, res>>

\* handleScan on the decoded payload: a mode that does not parse is answered
\* with 400 Bad Request, the others go to StartScan
HandleScan ==
    /\ arg.fn = "handleScan"
    /\ LET parsed == ParseScanMode(arg.mode)
       IN IF parsed.err # ""
            THEN /\ ret' = parsed.err
                 /\ UNCHANGED <<disk, missing, files, store, scanState, status, scanCancel,
                                ctxDone, starting, task, upd, hydrated, quiet, nscans, nev,
                                nfault>>
                 /\ UNCHANGED aside
            ELSE StartScanReject \/ StartScanAccept(parsed.mode, MaxScans)

\* the scan endpoint, the load at startup and the scan goroutines
Requests ==
    \/ ScanRequest
    \/ HandleScan
    \/ StartScanLaunch
    \/ StopScan
    \/ LoadFromStore
    \/ \E id \in ScanIds : ScanStep(id)
SpecRequests == Init /\ [][Requests]_vars

\* the mode a string names, letter by letter in either case
Spells(input, name) ==
    /\ Len(input) = Len(name)
    /\ \A i \in 1..Len(name) :
         \E pair \in {<<"f", "F">>, <<"u", "U">>, <<"l", "L">>, <<"i", "I">>, <<"n", "N">>,
                      <<"c", "C">>, <<"r", "R">>, <<"e", "E">>, <<"m", "M">>, <<"t", "T">>,
                      <<"a", "A">>} :
           name[i] = pair[1] /\ input[i] \in {pair[1], pair[2]}
Named(input) ==
    IF input = <<>> \/ Spells(input, IncrementalName) THEN ScanModeIncremental
    ELSE IF Spells(input, FullName) THEN ScanModeFull
    ELSE ""
\* C25: ParseScanMode maps the empty string to incremental and "full" and
\* "incremental" in any letter case to their mode, and rejects every other
\* input with an error and no usable mode; the scan endpoint then starts no
\* scan
ModeParsedOrRejected ==
    /\ [](arg.fn = "handleScan" =>
            LET parsed == ParseScanMode(arg.mode)
            IN /\ parsed.mode = Named(arg.mode)
               /\ (parsed.err # "") = (Named(arg.mode) = "")
               /\ Named(arg.mode) = "" => parsed.mode \notin Modes)
    /\ [][(arg.fn = "handleScan" /\ arg' = arg) =>
            /\ (starting = NoStart /\ starting' # NoStart) =>
                  /\ Named(arg.mode) \in Modes
                  /\ starting'.mode = Named(arg.mode)
                  /\ status'.Mode = Named(arg.mode)
            /\ Named(arg.mode) = "" =>
                  /\ ~(starting = NoStart /\ starting' # NoStart)
                  /\ nscans' = nscans
                  /\ status'.Running => status.Running]_vars
\* the endpoint has answered a request for the mode "full " with the
\* validation error; no scan was ever started
ModeParsedOrRejectedWitness ==
    /\ arg.fn = "handleScan" /\ arg.mode = <<"f", "u", "l", "l", " ">>
    /\ ret = ErrUnknownMode
    /\ nscans = 0 /\ ~status.Running

(* ------------------------------ New, Roots ----------------------------- *)
ErrNoRoots == "at least one scan root is required"
ErrNoValidRoots == "no valid scan roots provided"
ErrGetwd == "getwd"
\* the working directory of the process, or none when os.Getwd fails
NoDir == <<"?">>
\* filepath.Abs: a rooted path is cleaned, another one is joined to the
\* working directory
Abs(path, wd) ==
    IF HasPrefix(path, <<"/">>) THEN [path |-> Clean(path), err |-> ""]
    ELSE IF wd = NoDir THEN [path |-> <<>>, err |-> ErrGetwd]
    ELSE IF path = <<>> THEN [path |-> Clean(wd), err |-> ""]
    ELSE [path |-> Clean(wd \o <<"/">> \o path), err |-> ""]
\* the loop of New over the roots given
RECURSIVE NormalizedKeepingBlank(_, _, _)
NormalizedKeepingBlank(roots, wd, out) ==
    IF roots = <<>> THEN [roots |-> out, err |-> ""]
    ELSE LET abs == Abs(roots[1], wd)
         IN IF abs.err # "" THEN [roots |-> <<>>, err |-> abs.err]
            ELSE NormalizedKeepingBlank(Tail(roots), wd, Append(out, Clean(abs.path)))
RECURSIVE NormalizedRoots(_, _, _)
NormalizedRoots(roots, wd, out) ==
    IF roots = <<>> THEN [roots |-> out, err |-> ""]
    ELSE IF roots[1] = <<>> THEN NormalizedRoots(Tail(roots), wd, out)
    ELSE LET abs == Abs(roots[1], wd)
         IN IF abs.err # "" THEN [roots |-> <<>>, err |-> abs.err]
            ELSE NormalizedRoots(Tail(roots), wd, Append(out, Clean(abs.path)))
NoIndexer == [fn |-> "New", idx |-> FALSE, scanRoots |-> <<>>, err |-> "",
              roots |-> <<>>]
\* New(scanRoots, store): the Indexer returned, or none and the error
NewIndexer(roots, wd) ==
    IF roots = <<>> THEN [NoIndexer EXCEPT !.err = ErrNoRoots]
    ELSE LET normalized == NormalizedRoots(roots, wd, <<>>)
         IN IF normalized.err # "" THEN [NoIndexer EXCEPT !.err = normalized.err]
            ELSE IF normalized.roots = <<>> THEN [NoIndexer EXCEPT !.err = ErrNoValidRoots]
            ELSE [NoIndexer EXCEPT !.idx = TRUE, !.scanRoots = normalized.roots]

RawRoots ==
    {<<>>, <<"/", "a">>, <<"/", "b", "/">>, <<"a">>, <<".", "/", "b">>,
     <<"/", "a", "/", ".", ".", "/", "b">>, <<".", ".">>, <<"/">>}
MaxRoots == 2
RootLists == Strings(RawRoots, 0..MaxRoots)
InitConstructing ==
    /\ InitIndexer /\ InitLocks
    /\ res = NoCall
    /\ \E roots \in RootLists, wd \in {<<"/", "w">>, <<"/">>, NoDir} :
         arg = [fn |-> "New", scanRoots |-> roots, wd |-> wd]
New ==
    /\ arg.fn = "New" /\ res = NoCall
    /\ res' = NewIndexer(arg.scanRoots, arg.wd)
    /\ UNCHANGED <<indexer, mu, statusMu, scanMu, at, reply, arg>>
\* Roots(): a new slice with the roots copied into it
RootsCall ==
    /\ res # NoCall /\ res.idx
    /\ res' = [res EXCEPT !.roots = res.scanRoots]
    /\ UNCHANGED <<indexer, mu, statusMu, scanMu, at, reply, arg>>
\* the caller writes into the slice Roots returned
CallerWrites ==
    /\ res # NoCall /\ res.idx
    /\ \E i \in 1..Len(res.roots), path \in {<<"/", "x">>, <<>>} :
         /\ res.roots[i] # path
         /\ res' = [res EXCEPT !.roots[i] = path]
    /\ UNCHANGED <<indexer, mu, statusMu, scanMu, at, reply, arg>>
Constructing == New \/ RootsCall \/ CallerWrites
SpecConstructing == InitConstructing /\ [][Constructing]_vars

\* a rooted path without empty, "." or ".." elements and without a slash at
\* its end
AbsoluteAndNormalized(path) ==
    LET segs == Segments(path)
    IN /\ path # <<>> /\ path[1] = "/"
       /\ \/ path = <<"/">>
          \/ \A i \in 2..Len(segs) : segs[i] \notin {<<>>, <<".">>, <<".", ".">>}
\* the positions of the list that hold a root
ValidAt(roots) == {i \in 1..Len(roots) : roots[i] # <<>>}
\* the number of valid roots before position i
Before(roots, i) == Cardinality({j \in ValidAt(roots) : j < i})
\* C26: New returns no Indexer for an empty list and for a list without a
\* valid root; an Indexer returned holds at least one root, each absolute and
\* normalized, in input order, and no later operation changes the list
RootsFixedAtConstruction ==
    /\ [](res # NoCall =>
            /\ ValidAt(arg.scanRoots) = {} =>
                  ~res.idx /\ res.err # "" /\ res.scanRoots = <<>>
            /\ res.idx =>
                  /\ res.err = ""
                  /\ Len(res.scanRoots) >= 1
                  /\ Len(res.scanRoots) = Cardinality(ValidAt(arg.scanRoots))
                  /\ \A k \in 1..Len(res.scanRoots) : AbsoluteAndNormalized(res.scanRoots[k])
                  /\ \A i \in ValidAt(arg.scanRoots) :
                       res.scanRoots[Before(arg.scanRoots, i) + 1]
                         = Abs(arg.scanRoots[i], arg.wd).path)
    /\ [][res # NoCall => (res'.idx = res.idx /\ res'.scanRoots = res.scanRoots)]_vars
\* an Indexer built from <<"./b", "/b/">> in /w holds /w/b and /b, and
\* its caller has overwritten the first root of the slice Roots returned
RootsFixedAtConstructionWitness ==
    /\ res # NoCall /\ res.idx
    /\ Len(arg.scanRoots) = 2 /\ arg.scanRoots[1] = <<".", "/", "b">>
    /\ arg.scanRoots[2] = <<"/", "b", "/">>
    /\ res.scanRoots = << <<"/", "w", "/", "b">>, <<"/", "b">> >>
    /\ res.roots # <<>> /\ res.roots[1] = <<"/", "x">>

(* -------------------- cancellation at the head of a root --------------- *)
\* the select at the head of the loop body has seen the cancellation, and
\* runScan is still in its loop over the roots
ObservedAtRoot(id) ==
    /\ task[id].pc \in {"rootCheck", "walkEnter", "walk", "walkStore"}
    /\ task[id].firstErr = ErrCanceled
\* C27: once cancellation is observed at the head of a root, the scan
\* records the cancellation error and processes no further root: no root is
\* walked, none is marked scanned and no ScanState update is issued, missing
\* and unreadable roots included
CancelledScanLeavesRoots ==
    [][\A id \in ScanIds :
         ObservedAtRoot(id) =>
           /\ task'[id].firstErr = ErrCanceled
           /\ task'[id].scannedRoots = task[id].scannedRoots
           /\ task'[id].ri = task[id].ri
           /\ task'[id].seen = task[id].seen
           /\ scanState' = scanState]_vars
\* the same for the roots that exist: walkRoot is still called, its walker
\* returns the cancellation on the root itself and runScan leaves the loop
CancelledScanLeavesPresentRoots ==
    [][\A id \in ScanIds :
         (ObservedAtRoot(id) /\ task'[id].skipped \cap Roots = {}) =>
           /\ task'[id].firstErr = ErrCanceled
           /\ task'[id].scannedRoots = task[id].scannedRoots
           /\ task'[id].ri = task[id].ri
           /\ task'[id].seen = task[id].seen
           /\ task'[id].processed = task[id].processed
           /\ scanState' = scanState]_vars

(* ------------------- reconciliation of a cancelled scan ---------------- *)
\* the scan was cancelled while its loop over the roots was running, a root
\* is left whose walk did not come to its end, and no root was missing
CancelledInWalk(id) ==
    /\ task[id].cancelEarly
    /\ task[id].scannedRoots # Roots
    /\ task[id].skipped \cap Roots = {}
\* C28: a scan cancelled before the walk of some root has completed skips
\* deletion reconciliation: it removes no record from the index and issues
\* no delete to the store
CancelledScanSkipsReconciliation ==
    \A id \in ScanIds :
      CancelledInWalk(id) =>
        /\ task[id].removed = {}
        /\ task[id].pc \notin {"remove", "removeStore"}
\* what the code does instead: removeMissing runs for the roots that were
\* marked scanned, and takes its candidates under these roots only
CancelledScanReconcilesScannedRoots ==
    [][\A id \in ScanIds :
         /\ (task[id].pc = "afterLoop" /\ task'[id].pc = "remove") => task[id].scannedRoots # {}
         /\ (task[id].pc = "afterLoop" /\ task[id].scannedRoots = {} /\ task'[id] # task[id]) =>
               task'[id].pc = "finalize"
         /\ \A p \in task'[id].removed \ task[id].removed :
               p \in task[id].candidates /\ files'[p] = NoRecord]_vars

(* ------------------ what a cancelled scan leaves behind ---------------- *)
\* the scan has ended with the cancellation as its error, and no store call
\* failed for another reason
CancelledAndFinal(id) ==
    /\ Finalized(id)
    /\ IsCanceled(task[id].firstErr)
    /\ nfault = 0
\* the records the scan put in the index that the store does not hold alike
Uncommitted(id) ==
    {p \in AllPaths : /\ files[p] # NoRecord
                      /\ files[p] # task[id].before[p]
                      /\ store[p] # files[p]}
\* the records the scan removed from the index that the store still holds
Undeleted(id) == {p \in task[id].removed : store[p] # NoRecord}
\* C29: when a cancelled scan has finalized, every record it wrote to the
\* index is in the store with the same content and every record it removed
\* from the index is removed from the store, the store observing the same
\* cancellation
CancelledScanIsCommitted ==
    \A id \in ScanIds :
      CancelledAndFinal(id) => Uncommitted(id) = {} /\ Undeleted(id) = {}
\* what holds instead: one record is left uncommitted at most, the one whose
\* index half was done when the cancellation came
CancelledScanLeavesOneOpen ==
    \A id \in ScanIds :
      CancelledAndFinal(id) =>
        /\ Cardinality(Uncommitted(id) \cup Undeleted(id)) <= 1
        /\ Uncommitted(id) \subseteq {task[id].visit.path}

(* -------------------- mutations of one path, side by side -------------- *)
\* the path a scan has changed in the index and not yet written through
ScanOpen(id) ==
    IF task[id].pc = "walkStore" THEN task[id].cur.Path
    ELSE IF task[id].pc = "removeStore" THEN task[id].del
    ELSE ""
\* UpdateFile or RemoveFile is between its index half and its store half
\* on the path a scan is writing through
Interleaved(id) == upd # NoUpdate /\ ScanOpen(id) = upd.path
\* no mutation is under way, and no store call has failed
AllCompleted ==
    /\ upd = NoUpdate
    /\ \A id \in ScanIds : ScanOpen(id) = "" /\ task[id].firstErr = NoErr
    /\ status.Error = NoErr
    /\ nfault = 0
\* the paths that neither the index nor the store holds at first
Fresh == {p \in AllPaths : \A s \in InitStores : s[p] = NoRecord}
\* C30: the index update and the store write-through of one mutation are
\* never interleaved with those of another mutation of the same path, so
\* that once the mutations of a path have completed without store error the
\* index and the store hold the same value for it, or both none
MutationsExclusive ==
    /\ \A id \in ScanIds : ~Interleaved(id)
    /\ (AllCompleted /\ ~hydrated) => \A p \in Fresh : files[p] = store[p]
\* the outcome of an interleaving, a state the model reaches: the index and
\* the store hold different values for a path after the mutations have
\* completed
MutationsDisagree ==
    AllCompleted /\ ~hydrated /\ \E p \in Fresh : files[p] # store[p]

(* --------------------------- LastSuccessfulRun ------------------------- *)
\* a StartScan call is let through in this step
ScanAccepted == ~status.Running /\ status'.Running
\* C31: lastSuccessfulRun never moves backwards: an accepted startScan
\* leaves it as it was, so the value of an earlier successful scan or of
\* loadFromStore is still reported while the new scan runs and after it
\* ends with an error or a cancellation
LastSuccessfulRunKept ==
    [][/\ status'.LastSuccessfulRun >= status.LastSuccessfulRun
       /\ ScanAccepted => status'.LastSuccessfulRun = status.LastSuccessfulRun]_vars
\* what the code does: the struct StartScan assigns has no LastSuccessfulRun,
\* so an accepted call sets it to the zero time; nothing else moves it back
LastSuccessfulRunResetByStartScan ==
    [][/\ ScanAccepted => status'.LastSuccessfulRun = 0
       /\ status'.LastSuccessfulRun < status.LastSuccessfulRun => ScanAccepted]_vars

(* ----------------------------- scan lifecycle -------------------------- *)
\* scans one after another over an unchanging filesystem, a full one first
\* and incremental ones after it: a StartScan call
\* that was let through goes on to its go statement and returns, and every
\* scan goroutine is scheduled again and again
Relaunch ==
    \/ StartScanReject
    \/ StartScanAccept(ScanModeFull, MaxScans)
    \/ nscans >= MaxScans /\ StartScanAccept(ScanModeIncremental, MaxRescans)
    \/ StartScanLaunch
    \/ StopScan
    \/ LoadFromStore
    \/ \E id \in ScanIds : ScanStep(id)
FairScans ==
    /\ Init /\ [][Relaunch]_vars
    /\ WF_vars(StartScanLaunch)
    /\ \A id \in ScanIds : WF_vars(ScanStep(id))
\* the StartScan call for scan id was let through, or the scan is under way
Accepted(id) == starting.id = id \/ Working(id)
\* C32: startScan returns without waiting for the scan; every accepted scan
\* eventually finalizes with running=false; and a startScan is rejected
\* with ErrScanInProgress only while a scan is running, so the call after
\* the finalization is accepted
ScanLifecycle ==
    /\ [][(starting # NoStart /\ starting' = NoStart) =>
            /\ ret' = "nil"
            /\ task'[starting.id].pc = "begin"]_vars
    /\ (starting # NoStart) ~> (starting = NoStart)
    /\ \A id \in ScanIds : Accepted(id) ~> Finalized(id)
    /\ [](\A id \in ScanIds : Finalized(id) => ~status.Running /\ ~ScanRejected)
    /\ [][(ret' = ErrScanInProgress /\ status' = status /\ ~status.Running) => ret' = ret]_vars
    /\ [][(~status.Running /\ nscans' = nscans + 1) => status'.Running]_vars
\* the second scan is walking after the first has ended and its StartScan
\* call has returned nil
ScanLifecycleWitness ==
    /\ nscans = 2
    /\ task[2].pc = "walk"
    /\ task[1].pc = "idle"
    /\ status.Running /\ status.StartedAt = Now(2, 0)
    /\ ret = "nil"

(* ------------------------------ lock waits ----------------------------- *)
\* a call that goes on without giving the lock back
ReleaseForgotten(c) ==
    /\ ~Returned(c)
    /\ Op(c)[1] \in {"Unlock", "RUnlock"}
    /\ at' = [at EXCEPT ![c] = @ + 1]
    /\ UNCHANGED <<mu, statusMu, scanMu, files, status, reply, settled>>
\* Unlock / RUnlock as a lock operation only: what the call did to the index
\* or the status under the lock is left aside
Release(c) ==
    /\ ~Returned(c)
    /\ Op(c)[1] \in {"Unlock", "RUnlock"}
    /\ SetLock(Op(c)[2], IF Op(c)[1] = "Unlock"
                            THEN [LockOf(Op(c)[2]) EXCEPT !.w = ""]
                            ELSE [LockOf(Op(c)[2]) EXCEPT !.r = @ \ {c}])
    /\ at' = [at EXCEPT ![c] = @ + 1]
    /\ UNCHANGED <<files, status, reply, settled>>
\* every call of the Indexer once, interleaved at every lock operation
Contending ==
    \E c \in Calls \cup OtherCalls : Announce(c) \/ Lock(c) \/ RLock(c) \/ Release(c)
\* the store plays no part in the locks: it starts empty
InitContending == Init /\ store = EmptyStore
SpecContending == InitContending /\ [][Contending]_vars

AllCalls == Calls \cup OtherCalls
\* the call can take its next lock operation now
CanStep(c) ==
    /\ ~Returned(c)
    /\ CASE Op(c)[1] = "Lock" ->
              IF c \in LockOf(Op(c)[2]).q THEN CanLock(LockOf(Op(c)[2])) ELSE Started(c)
         [] Op(c)[1] = "RLock" -> CanRLock(LockOf(Op(c)[2]))
         [] OTHER -> TRUE
\* the lock operations done so far, the announcements of writers included
Progress ==
    2 * (at["startScan"] + at["status"] + at["search"] + at["loadFromStore"]
         + at["updateFile"] + at["removeFile"] + at["scan"] + at["stopScan"]
         + at["lookup"] + at["roots"])
      + Cardinality(mu.q) + Cardinality(statusMu.q) + Cardinality(scanMu.q)
HoldsAny(c) == Holds(mu, c) \/ Holds(statusMu, c) \/ Holds(scanMu, c)
\* C33: under any interleaving of the calls and a running scan no state is
\* reachable in which calls wait for ever on the three locks held by one
\* another, and a call that has acquired its locks releases them: as long
\* as a call has not returned some call can take its next lock operation,
\* every step moves a call forward in its code, and a call that has returned
\* holds no lock
NoLockWaitsForEver ==
    /\ []((\E c \in AllCalls : ~Returned(c)) => \E c \in AllCalls : CanStep(c))
    /\ [](\A c \in AllCalls : Returned(c) => ~HoldsAny(c))
    /\ [][Progress' > Progress]_vars
\* StartScan holds the status lock and waits for the index lock behind
\* UpdateFile, a Status call waits for the status lock behind StartScan, and
\* StopScan holds the handle lock
NoLockWaitsForEverWitness ==
    /\ Holds(statusMu, "startScan") /\ Waits("startScan")
    /\ Holds(mu, "updateFile")
    /\ Waits("status")
    /\ Holds(scanMu, "stopScan")

(* ------------------------- Search under the lock ----------------------- *)
\* the characters of the paths of the environment
Spelling(p) ==
    CASE p = "/A/a1" -> <<"/", "A", "/", "a", "1">>
      [] p = "/A/a2" -> <<"/", "A", "/", "a", "2">>
      [] p = "/B/b1" -> <<"/", "B", "/", "b", "1">>
      [] p = "/B/b2" -> <<"/", "B", "/", "b", "2">>
      [] OTHER -> <<"/", "Z", "/", "z", "1">>
\* filepath.Base of a clean path
RECURSIVE Base(_)
Base(path) ==
    IF \E i \in 1..Len(path) : path[i] = "/" THEN Base(Tail(path)) ELSE path
\* a record of the index as Search reads it
SearchRecord(r) ==
    [Path |-> Spelling(r.Path), Name |-> Base(Spelling(r.Path)),
     Size |-> r.Size, ModTime |-> r.ModTime]
\* the paths idx.files holds
Indexed == {p \in AllPaths : files[p] # NoRecord}
\* the queries of the searches that run beside the writers
SnapshotQueries ==
    {ZeroQuery,
     [ZeroQuery EXCEPT !.MinSize = 20],
     [ZeroQuery EXCEPT !.SortField = BySize, !.SortDescending = TRUE, !.Limit = 1]}
\* the calls that write idx.files: saveRecord (UpdateFile, the walker),
\* deleteRecord (RemoveFile, removeMissing) and LoadFromStore
Writers == {"updateFile", "removeFile", "loadFromStore"}
InitSnapshot ==
    /\ InitIndexer /\ InitLocks
    /\ res = NoCall
    /\ \E query \in SnapshotQueries : arg = [fn |-> "Search", query |-> query]

\* Search: mu.RLock()
SearchEnter ==
    /\ at["search"] = 1
    /\ CanRLock(mu)
    /\ mu' = [mu EXCEPT !.r = @ \cup {"search"}]
    /\ at' = [at EXCEPT !["search"] = 2]
    /\ res' = [fn |-> "filter", visited |-> {}, matches |-> {}]
    /\ UNCHANGED <<indexer, statusMu, scanMu, reply, arg>>
\* Search: the loop over idx.files reaches one more record, in the order the
\* map hands them out
SearchVisit ==
    /\ at["search"] = 2
    /\ \E p \in Indexed \ res.visited :
         res' = [res EXCEPT !.visited = @ \cup {p},
                            !.matches =
                               IF matchesQuery(SearchRecord(files[p]), arg.query,
                                               AllowedExts(arg.query.Extensions))
                                 THEN @ \cup {SearchRecord(files[p])} ELSE @]
    /\ UNCHANGED <<indexer, mu, statusMu, scanMu, at, reply, arg>>
\* Search: the loop has ended; sort, page, return (the deferred RUnlock)
SearchReturn ==
    /\ at["search"] = 2
    /\ Indexed \subseteq res.visited
    /\ \E order \in Orders(res.matches, arg.query) :
         res' = Page(order, arg.query.Offset, arg.query.Limit)
    /\ mu' = [mu EXCEPT !.r = @ \ {"search"}]
    /\ at' = [at EXCEPT !["search"] = 3]
    /\ UNCHANGED <<indexer, statusMu, scanMu, reply, arg>>
\* a search beside the writers of the index
Snapshotting ==
    \/ SearchEnter
    \/ SearchVisit
    \/ SearchReturn
    \/ \E c \in Writers : Announce(c) \/ Lock(c) \/ Unlock(c)
SpecSnapshot == InitSnapshot /\ [][Snapshotting]_vars

\* the index as a set of records
IndexOf(index) == {SearchRecord(index[p]) : p \in {q \in AllPaths : index[q] # NoRecord}}
\* the results of a search over one state of the index
ResultsOver(index, query) ==
    LET matching == {r \in IndexOf(index) : matchesQuery(r, query, AllowedExts(query.Extensions))}
    IN {Page(order, query.Offset, query.Limit) : order \in Orders(matching, query)}
\* C34: the files and the total a search returns are the filter, sort and
\* page of a single state of the index that existed between the call and the
\* return: no index write takes effect while the search is in its pass, and
\* the search modifies neither the index nor the status nor the store
SearchIsSnapshot ==
    /\ [][Holds(mu, "search") => files' = files]_vars
    /\ [][(at["search"] = 2 /\ at'["search"] = 3) => res' \in ResultsOver(files, arg.query)]_vars
    /\ [][(at'["search"] # at["search"] \/ res' # res) =>
            (files' = files /\ status' = status /\ store' = store /\ scanState' = scanState)]_vars
\* a search has returned two records of the loaded index while UpdateFile
\* was waiting for the lock since the middle of its pass
SearchIsSnapshotWitness ==
    /\ at["search"] = 3
    /\ res.fn = "Search" /\ res.Total = 2
    /\ "updateFile" \in mu.q
    /\ Returned("loadFromStore")

(* --------------------- the status while a scan runs -------------------- *)
\* the fields of the status that describe the scan in progress
ScanFields(s) == <<s.Mode, s.StartedAt, s.Processed, s.Error>>
\* a step of a scan goroutine
ByScan == \E id \in ScanIds : task'[id] # task[id]
\* from a state with a scan running to another
ScanStaysRunning == status.Running /\ status'.Running
\* C35: while a scan is running, mode, startedAt, processed and error change
\* only through the running scan itself and processed never decreases; no
\* other operation alters them or replaces the index under the scan
StatusDescribesRunningScan ==
    [][ScanStaysRunning =>
         /\ ScanFields(status') # ScanFields(status) => ByScan
         /\ status'.Processed >= status.Processed
         /\ ~LoadReplaces]_vars
\* the same of every step that is not one of LoadFromStore
StatusDescribesRunningScanButForLoad ==
    [][(ScanStaysRunning /\ res' = res) =>
         /\ ScanFields(status') # ScanFields(status) => ByScan
         /\ status'.Processed >= status.Processed]_vars
\* a scan that had processed a file reports processed = 0 and its index is
\* the one LoadFromStore put there
StatusResetUnderScan ==
    /\ status.Running
    /\ LoadAt = "returned" /\ res # NoCall /\ res.err = NoErr
    /\ \E id \in ScanIds : Working(id) /\ task[id].processed > 0
    /\ status.Processed = 0

(* --------------------------- cancelled search -------------------------- *)
\* indexes of files modified at the same time
CancelledIndexes == {index \in SortedIndexes(MaxMatches) : \A r \in index : r.ModTime = 1}
\* a search whose context is cancelled before or during the filter loop
InitCancelling ==
    /\ InitIndexer /\ InitLocks
    /\ res = NoCall
    /\ \E index \in CancelledIndexes, min \in {0, 2}, field \in {<<>>, BySize},
          desc \in BOOLEAN, offset \in 0..1, limit \in 0..2 :
         arg = SearchCall(index, [ZeroQuery EXCEPT !.MinSize = min, !.SortField = field,
                                                   !.SortDescending = desc,
                                                   !.Offset = offset, !.Limit = limit], TRUE)
SpecCancelling == InitCancelling /\ [][Searching]_vars

\* the records an uncancelled search matches on the same index
Uncancelled == CHOOSE matching \in Collected(arg.index, arg.query, FALSE) : TRUE
\* C36: a search whose context is cancelled during the pass returns without
\* an error; its files are a subset of the records an uncancelled search
\* matches on the same index, in the order and the page of the same rules,
\* and total is the number of matches collected before the cancellation was
\* seen, which is at most the uncancelled total
CancelledSearchIsPartial ==
    (Searched /\ arg.cancelled) =>
      /\ ~res.panic
      /\ Range(res.Files) \subseteq Uncancelled
      /\ res.Total <= Cardinality(Uncancelled)
      /\ \A i, j \in 1..Len(res.Files) :
           i < j => Less(res.Files[i], res.Files[j], arg.query)
      /\ \E collected \in SUBSET Uncancelled :
           /\ res.Total = Cardinality(collected)
           /\ LET sorted == CHOOSE order \in Orders(collected, arg.query) : TRUE
                  offset == Clamped(arg.query.Offset, res.Total)
                  limit == IF arg.query.Limit <= 0 THEN res.Total - offset ELSE arg.query.Limit
                  length == Min(limit, res.Total - offset)
              IN res.Files = SubSeq(sorted, offset + 1, offset + length)
\* three records match, two were collected, and the second page of one holds
\* the larger of them
CancelledSearchIsPartialWitness ==
    /\ Searched /\ arg.cancelled
    /\ Cardinality(Uncancelled) = 3 /\ Cardinality(arg.index) = 3
    /\ res.Total = 2
    /\ arg.query.Offset = 1 /\ arg.query.Limit = 1 /\ arg.query.SortField = BySize
    /\ ~arg.query.SortDescending
    /\ Len(res.Files) = 1 /\ res.Files[1].Size = 2

(* ---------------------------- sort direction --------------------------- *)
Reverse(seq) == [i \in 1..Len(seq) |-> seq[Len(seq) + 1 - i]]
\* the place of a record in the files returned
Place(r) == CHOOSE i \in 1..Len(res.Files) : res.Files[i] = r
\* two records tie on the requested field and on the lower-cased name
Tie(a, b, field) ==
    /\ compareRecords(a, b, field) = 0
    /\ Compare(ToLower(a.Name), ToLower(b.Name)) = 0
\* the only order of the index in the other direction
Opposite ==
    CHOOSE order \in Orders(arg.index, [arg.query EXCEPT !.SortDescending = ~@]) : TRUE
\* C37: when descending is requested the comparison on the requested field
\* and the case-insensitive name tiebreak are both reversed, and the final
\* path tiebreak is ascending in both directions; so for a match set in which
\* no two records tie on both field and lower-cased name the descending
\* result is the reverse of the ascending one
DirectionReversesFieldAndName ==
    Searched =>
      /\ Range(res.Files) = arg.index
      /\ \A a, b \in arg.index :
           a # b =>
             LET byField == compareRecords(a, b, arg.query.SortField)
                 byName == Compare(ToLower(a.Name), ToLower(b.Name))
                 first == Place(a) < Place(b)
             IN IF byField # 0
                  THEN first <=> IF arg.query.SortDescending THEN byField > 0 ELSE byField < 0
                ELSE IF byName # 0
                  THEN first <=> IF arg.query.SortDescending THEN byName > 0 ELSE byName < 0
                ELSE first <=> Compare(a.Path, b.Path) < 0
      /\ (\A a, b \in arg.index : a # b => ~Tie(a, b, arg.query.SortField))
           => res.Files = Reverse(Opposite)
\* descending by size: the largest first, then two records that tie on size
\* and on the lower-cased name, the one with the lesser path first
DirectionReversesFieldAndNameWitness ==
    /\ Searched
    /\ arg.query.SortField = BySize /\ arg.query.SortDescending
    /\ Len(res.Files) = 3
    /\ res.Files[1].Size > res.Files[2].Size
    /\ Tie(res.Files[2], res.Files[3], BySize)
    /\ Compare(res.Files[2].Path, res.Files[3].Path) < 0
    /\ res.Files # Reverse(Opposite)
====
